---- MODULE Spec2Model ----
(***************************************************************************)
(* Model of the ATCS-GH decision-and-learning core:                        *)
(*   - TrafficEnv (src/ai/traffic_env.py): the phase controller, the       *)
(*     emergency preemption layer and the step()/reset()/close() contract; *)
(*   - ReplayBuffer and DQNAgent (src/ai/dqn_agent.py).                    *)
(* The simulator (SUMO through TraCI) is the environment of the model: its *)
(* answers (emergency vehicles per edge, remaining demand, whether the     *)
(* traffic light has a program) are inputs chosen with \E.                 *)
(***************************************************************************)
EXTENDS Integers, Sequences, FiniteSets, TLC

\* ------------------------------------------------------------------------
\* Bounds of the model
\* ------------------------------------------------------------------------

\* step() is explored while fewer than MaxSimStep simulated seconds have run
MaxSimStep == 27
\* step() is explored for MaxAfterDone simulated seconds after the simulator
\* first reported that no vehicle remains (step() itself does not refuse a
\* call made after it returned done = True)
MaxAfterDone == 3
\* Simulation seconds explored when the demand makes the statistics move
MaxStatsStep == 18
\* Simulation seconds explored per episode under the training driver
MaxTrainSimStep == 11
\* and, with an emergency vehicle about, for MaxPreemptSimStep seconds
MaxPreemptSimStep == 21
\* and to MaxResponseStep on the network that keeps its vehicles
MaxResponseStep == 41
\* the total approach queue the simulator reports at the end of a block is
\* drawn from 0 .. MaxQueue
MaxQueue == 2

\* ------------------------------------------------------------------------
\* Constants of traffic_env.py
\* ------------------------------------------------------------------------

NS_THROUGH == 0
NS_LEFT == 1
NS_YELLOW == 2
EW_THROUGH == 3
EW_LEFT == 4
EW_YELLOW == 5
NUM_PHASES == 6

Phases == 0 .. (NUM_PHASES - 1)

GREEN_PHASES == {NS_THROUGH, NS_LEFT, EW_THROUGH, EW_LEFT}

\* The 18-character strings given to setRedYellowGreenState(), one character
\* per movement (positions 0-17 of the source are 1-18 here)
PHASE_SIGNALS ==
  (NS_THROUGH :> <<"G", "G", "G", "r", "r", "r", "r", "r", "r",
                   "G", "G", "G", "r", "r", "r", "r", "r", "r">>)
  @@ (NS_LEFT :> <<"g", "r", "r", "G", "g", "r", "r", "r", "r",
                   "g", "r", "r", "G", "g", "r", "r", "r", "r">>)
  @@ (NS_YELLOW :> <<"y", "y", "y", "y", "y", "r", "r", "r", "r",
                     "y", "y", "y", "y", "y", "r", "r", "r", "r">>)
  @@ (EW_THROUGH :> <<"r", "r", "r", "r", "r", "G", "G", "r", "r",
                      "r", "r", "r", "r", "r", "G", "G", "r", "r">>)
  @@ (EW_LEFT :> <<"r", "r", "r", "r", "r", "g", "r", "G", "g",
                   "r", "r", "r", "r", "r", "g", "r", "G", "g">>)
  @@ (EW_YELLOW :> <<"r", "r", "r", "r", "r", "y", "y", "y", "y",
                     "r", "r", "r", "r", "r", "y", "y", "y", "y">>)

\* The movements of each axis (the connection mapping of lines 103-107):
\* N2J and S2J, E2J and W2J
NS_MOVEMENTS == (1 .. 5) \cup (10 .. 14)
EW_MOVEMENTS == (6 .. 9) \cup (15 .. 18)

INCOMING_EDGES == <<"N2J", "S2J", "E2J", "W2J">>

Edges == {INCOMING_EDGES[i] : i \in 1 .. Len(INCOMING_EDGES)}

EDGE_TO_GREENS ==
  [e \in Edges |->
     IF e \in {"N2J", "S2J"} THEN <<NS_THROUGH, NS_LEFT>>
                             ELSE <<EW_THROUGH, EW_LEFT>>]

\* EDGE_TO_GREENS[e] as a set
GreensOf(e) == {EDGE_TO_GREENS[e][k] : k \in 1 .. Len(EDGE_TO_GREENS[e])}

ACTION_HOLD == 0
ACTION_NS_THROUGH == 1
ACTION_NS_LEFT == 2
ACTION_EW_THROUGH == 3
ACTION_EW_LEFT == 4
ACTION_SIZE == 5

Actions == 0 .. (ACTION_SIZE - 1)

\* Python's None (ACTION_TO_PHASE.get() of an unmapped action, forced_phase
\* when no preemption)
None == 0 - 1

ACTION_TO_PHASE ==
  [a \in {ACTION_NS_THROUGH, ACTION_NS_LEFT, ACTION_EW_THROUGH, ACTION_EW_LEFT} |->
     CASE a = ACTION_NS_THROUGH -> NS_THROUGH
       [] a = ACTION_NS_LEFT    -> NS_LEFT
       [] a = ACTION_EW_THROUGH -> EW_THROUGH
       [] a = ACTION_EW_LEFT    -> EW_LEFT]

DECISION_INTERVAL == 5
MIN_GREEN_THROUGH == 15
MIN_GREEN_LEFT == 8
YELLOW_DURATION == 3
SIM_DURATION == 7200
W_FLICKER == 10
\* W_QUEUE_DELTA = 0.5, in tenths: the growth term is kept in tenths of a
\* reward unit
W_QUEUE_DELTA == 5

\* The signal shown by a freshly started simulator before any
\* setRedYellowGreenState() command: the network's own program, none of the
\* six PHASE_SIGNALS strings.
NoSignal == NUM_PHASES

VARIABLES
  connected,         \* TrafficEnv._connected
  phase,             \* TrafficEnv._phase
  phase_timer,       \* TrafficEnv._phase_timer
  in_yellow,         \* TrafficEnv._in_yellow
  yellow_countdown,  \* TrafficEnv._yellow_countdown
  next_green,        \* TrafficEnv._next_green
  sim_step,          \* TrafficEnv._sim_step
  signal,            \* simulator: phase whose PHASE_SIGNALS string was last commanded
  exhausted_at,      \* simulator: the second at which getMinExpectedNumber() was first 0 (0: not yet)
  yellow_sims,       \* simulator: simulationStep() calls run under the current yellow command
  prev_total_queue,  \* TrafficEnv._prev_total_queue
  scenario,          \* simulator: what the demand of the loaded configuration produces
  total_arrived,     \* TrafficEnv.total_arrived
  episode_len,       \* the common length of TrafficEnv.episode_rewards, episode_queues, episode_waits
  emergency_log,     \* TrafficEnv.emergency_log: the vehicle ids it holds
  lastCall           \* what the last reset()/step()/close() call did and returned

envVars == <<connected, phase, phase_timer, in_yellow, yellow_countdown,
             next_green, sim_step, signal, exhausted_at, yellow_sims,
             prev_total_queue, scenario, total_arrived, episode_len,
             emergency_log, lastCall>>

VARIABLES
  buffer,    \* ReplayBuffer.buffer: the deque, oldest first
  pushLog,   \* every transition passed to push(), in call order
  bufCall    \* what the last ReplayBuffer call did and returned

bufVars == <<buffer, pushLog, bufCall>>

VARIABLES
  policy_net,   \* DQNAgent.policy_net's weights
  target_net,   \* DQNAgent.target_net's weights
  optimiser,    \* DQNAgent.optimiser's state: the Adam steps taken
  step_count,   \* DQNAgent.step_count
  epsilon,      \* DQNAgent.epsilon
  decays,       \* decay_epsilon() calls made on this agent since its construction
  agentCall     \* what the last DQNAgent call did and returned

agentVars == <<policy_net, target_net, optimiser, step_count, epsilon, decays,
               agentCall>>

VARIABLES
  disk,        \* the file save() last wrote (none before the first save())
  savedAgent,  \* the agent's fields at the moment of that save()
  driver,      \* the script that built the agent: which one, and how far it got
  train        \* train(): its position, its locals and the rows it logged

ckptVars == <<disk, savedAgent, driver, train>>

VARIABLES
  targetCall,    \* learn()'s bootstrap target for one sampled transition: inputs and result
  metricsCall,   \* one _collect_lane_metrics()/_collect_edge_metrics() pass: answers and result
  rewardCall,    \* one _compute_reward() call: arguments and result
  obsCall,       \* one _build_state() call: what it read and the vector it returned
  response,      \* per incoming edge: the step() calls in a row that found an emergency vehicle on it unserved
  stale,         \* the optimiser steps taken since the target network was last made equal to the policy network
  pending_override,  \* visualizer_server.pending_override
  viz            \* the visualizer server: the simulation loop's position and locals, the handlers' clients, and what was received and applied

calcVars == <<targetCall, metricsCall, rewardCall, obsCall, response, stale, pending_override, viz>>

vars == <<envVars, bufVars, agentVars, ckptVars, calcVars>>

nonEnvVars == <<bufVars, agentVars, ckptVars, calcVars>>

\* The controller fields and the simulator-side observations as one record,
\* the value the operators below transform.
EnvState ==
  [phase |-> phase, phase_timer |-> phase_timer, in_yellow |-> in_yellow,
   yellow_countdown |-> yellow_countdown, next_green |-> next_green,
   sim_step |-> sim_step, signal |-> signal, yellow_sims |-> yellow_sims,
   cmds |-> <<>>, phaseLog |-> <<phase>>, yellowLens |-> <<>>,
   greenTimers |-> <<>>, initiated |-> FALSE]

\* min_green with a through green held one decision block longer
MinGreenOfLonger(p) ==
  IF p \in {NS_LEFT, EW_LEFT} THEN MIN_GREEN_LEFT
  ELSE MIN_GREEN_THROUGH + DECISION_INTERVAL

\* min_green of _can_switch() and of the switched_too_soon expression
MinGreenOf(p) ==
  IF p \in {NS_LEFT, EW_LEFT} THEN MIN_GREEN_LEFT ELSE MIN_GREEN_THROUGH

\* TrafficEnv._can_switch
CanSwitchLax(s) ==
  IF s.in_yellow \/ s.phase \notin GREEN_PHASES
    THEN FALSE
    ELSE s.phase_timer + DECISION_INTERVAL >= MinGreenOf(s.phase)

CanSwitch(s) ==
  IF s.in_yellow \/ s.phase \notin GREEN_PHASES
    THEN FALSE
    ELSE s.phase_timer >= MinGreenOf(s.phase)

\* TrafficEnv._initiate_switch
InitiateSwitchDirect(s, target_green) ==
  IF target_green = None
    THEN s
    ELSE [s EXCEPT !.next_green = target_green,
                   !.signal = target_green,
                   !.cmds = Append(@, target_green),
                   !.phase = target_green,
                   !.phaseLog = Append(@, target_green),
                   !.phase_timer = 0,
                   !.initiated = TRUE]

\* _initiate_switch with a yellow longer than a decision block, and with the
\* yellow of the target's axis instead of the current phase's
InitiateSwitchLongYellow(s, target_green) ==
  IF target_green = None
    THEN s
    ELSE LET yellow == IF s.phase \in {NS_THROUGH, NS_LEFT} THEN NS_YELLOW
                                                            ELSE EW_YELLOW
         IN [s EXCEPT !.next_green = target_green,
                      !.signal = yellow,
                      !.yellow_sims = 0,
                      !.cmds = Append(@, yellow),
                      !.phase = yellow,
                      !.phaseLog = Append(@, yellow),
                      !.in_yellow = TRUE,
                      !.yellow_countdown = DECISION_INTERVAL + 1,
                      !.initiated = TRUE]

InitiateSwitchYellowOfTarget(s, target_green) ==
  IF target_green = None
    THEN s
    ELSE LET yellow == IF target_green \in {NS_THROUGH, NS_LEFT} THEN NS_YELLOW
                                                                 ELSE EW_YELLOW
         IN [s EXCEPT !.next_green = target_green,
                      !.signal = yellow,
                      !.yellow_sims = 0,
                      !.cmds = Append(@, yellow),
                      !.phase = yellow,
                      !.phaseLog = Append(@, yellow),
                      !.in_yellow = TRUE,
                      !.yellow_countdown = YELLOW_DURATION,
                      !.initiated = TRUE]

InitiateSwitch(s, target_green) ==
  IF target_green = None
    THEN s
    ELSE LET yellow == IF s.phase \in {NS_THROUGH, NS_LEFT} THEN NS_YELLOW
                                                            ELSE EW_YELLOW
         IN [s EXCEPT !.next_green = target_green,
                      !.signal = yellow,
                      !.yellow_sims = 0,
                      !.cmds = Append(@, yellow),
                      !.phase = yellow,
                      !.phaseLog = Append(@, yellow),
                      !.in_yellow = TRUE,
                      !.yellow_countdown = YELLOW_DURATION,
                      !.initiated = TRUE]

\* TrafficEnv._complete_switch
CompleteSwitch(s) ==
  LET t == [s EXCEPT !.signal = s.next_green,
                     !.cmds = Append(@, s.next_green),
                     !.phase = s.next_green,
                     !.phaseLog = Append(@, s.next_green),
                     !.in_yellow = FALSE,
                     !.phase_timer = 0]
  IN [t EXCEPT !.yellowLens = Append(@, s.yellow_sims),
               !.greenTimers = Append(@, t.phase_timer)]

\* TrafficEnv._check_emergency_preemption: the scan of INCOMING_EDGES from
\* position i on. E is the set of edges on which the simulator reports an
\* emergency vehicle (an edge whose query raises TraCIException is skipped,
\* like an edge without one).
RECURSIVE ScanEdges(_, _, _)
ScanEdges(s, E, i) ==
  IF i > Len(INCOMING_EDGES)
    THEN <<FALSE, None>>
    ELSE LET edge == INCOMING_EDGES[i]
             greens_for_edge == EDGE_TO_GREENS[edge]
             greens == {greens_for_edge[k] : k \in 1 .. Len(greens_for_edge)}
             already_serving ==
               \/ s.phase \in greens
               \/ (s.in_yellow /\ s.next_green \in greens)
         IN IF edge \in E /\ ~already_serving
              THEN <<TRUE, greens_for_edge[1]>>
              ELSE ScanEdges(s, E, i + 1)

RECURSIVE ScanEdgesActiveOnly(_, _, _)
ScanEdgesActiveOnly(s, E, i) ==
  IF i > Len(INCOMING_EDGES)
    THEN <<FALSE, None>>
    ELSE LET edge == INCOMING_EDGES[i]
             greens_for_edge == EDGE_TO_GREENS[edge]
             greens == {greens_for_edge[k] : k \in 1 .. Len(greens_for_edge)}
         IN IF edge \in E /\ s.phase \notin greens
              THEN <<TRUE, greens_for_edge[1]>>
              ELSE ScanEdgesActiveOnly(s, E, i + 1)

CheckEmergencyPreemptionActiveOnly(s, E) == ScanEdgesActiveOnly(s, E, 1)

CheckEmergencyPreemption(s, E) == ScanEdges(s, E, 1)

\* step(), lines 296-306: the safety layer, then the agent's request
DecideActionFirst(s, action, pre) ==
  LET target == IF action \in DOMAIN ACTION_TO_PHASE
                  THEN ACTION_TO_PHASE[action] ELSE None
  IN IF action # ACTION_HOLD /\ CanSwitch(s) /\ target # None /\ target # s.phase
       THEN InitiateSwitch(s, target)
       ELSE IF pre[1] /\ pre[2] # s.phase /\ CanSwitch(s)
              THEN InitiateSwitch(s, pre[2])
              ELSE s

DecideAnyTarget(s, action, pre) ==
  IF pre[1]
    THEN IF pre[2] # s.phase /\ CanSwitch(s)
           THEN InitiateSwitch(s, pre[2])
           ELSE s
    ELSE IF action # ACTION_HOLD /\ CanSwitch(s)
           THEN InitiateSwitch(s, IF action \in DOMAIN ACTION_TO_PHASE
                                    THEN ACTION_TO_PHASE[action] ELSE None)
           ELSE s

Decide(s, action, pre) ==
  IF pre[1]
    THEN IF pre[2] # s.phase /\ CanSwitch(s)
           THEN InitiateSwitch(s, pre[2])
           ELSE s
    ELSE IF action # ACTION_HOLD /\ CanSwitch(s)
           THEN LET target == IF action \in DOMAIN ACTION_TO_PHASE
                                THEN ACTION_TO_PHASE[action] ELSE None
                IN IF target # None /\ target # s.phase
                     THEN InitiateSwitch(s, target)
                     ELSE s
           ELSE s

\* step(), lines 315-342: iterations i..n of the block. n is the number of
\* iterations executed: DECISION_INTERVAL, or fewer when the simulator
\* reports no remaining vehicles and the loop breaks.
RECURSIVE RunBlock(_, _, _)
RunBlock(s, i, n) ==
  IF i > n
    THEN s
    ELSE LET s1 == IF s.in_yellow
                     THEN LET c == [s EXCEPT !.yellow_countdown = @ - 1]
                          IN IF c.yellow_countdown <= 0 THEN CompleteSwitch(c)
                                                        ELSE c
                     ELSE s
             \* traci.simulationStep(); _sim_step += 1; _phase_timer += 1
             s2 == [s1 EXCEPT !.sim_step = @ + 1,
                              !.phase_timer = @ + 1,
                              !.yellow_sims =
                                 IF s1.signal \in {NS_YELLOW, EW_YELLOW}
                                   THEN @ + 1 ELSE @]
         IN RunBlock(s2, i + 1, n)

\* step(), lines 359-363: the switched_too_soon argument of _compute_reward
SwitchedTooSoonAny(action, preempted, s) ==
  /\ action # ACTION_HOLD
  /\ s.phase_timer < MinGreenOf(s.phase)

SwitchedTooSoon(action, preempted, s) ==
  /\ action # ACTION_HOLD
  /\ ~preempted
  /\ s.phase_timer < MinGreenOf(s.phase)

\* _compute_reward, lines 495-496: the flicker term
FlickerTerm(switched_too_soon) ==
  IF switched_too_soon THEN 0 - W_FLICKER ELSE 0

\* _compute_reward, lines 486-487: the growth term, in tenths
GrowthTermSigned(total_queue, prev) ==
  0 - W_QUEUE_DELTA * (total_queue - prev)

GrowthTerm(total_queue, prev) ==
  LET delta == total_queue - prev
  IN 0 - W_QUEUE_DELTA * (IF delta > 0 THEN delta ELSE 0)

\* step() as a function of the state it starts in, the requested action and
\* the simulator's answers: E, the edges carrying an emergency vehicle at the
\* preemption check, and brk, the iteration at which getMinExpectedNumber()
\* first returns 0 (0: not in this block).
StepResultNoTimeLimit(s, action, E, brk) ==
  LET pre == CheckEmergencyPreemption(s, E)
      decided == Decide(s, action, pre)
      n == IF brk = 0 THEN DECISION_INTERVAL ELSE brk
      final == RunBlock(decided, 1, n)
      too_soon == SwitchedTooSoon(action, pre[1], final)
  IN [s |-> final,
      preempted |-> pre[1],
      forced |-> pre[2],
      switched_too_soon |-> too_soon,
      r_flick |-> FlickerTerm(too_soon),
      done |-> (brk # 0)]

StepResult(s, action, E, brk) ==
  LET pre == CheckEmergencyPreemption(s, E)
      decided == Decide(s, action, pre)
      n == IF brk = 0 THEN DECISION_INTERVAL ELSE brk
      final == RunBlock(decided, 1, n)
      too_soon == SwitchedTooSoon(action, pre[1], final)
  IN [s |-> final,
      preempted |-> pre[1],
      forced |-> pre[2],
      switched_too_soon |-> too_soon,
      r_flick |-> FlickerTerm(too_soon),
      done |-> (final.sim_step >= SIM_DURATION \/ brk # 0)]

\* The simulator's answers explored at the preemption check: no emergency
\* vehicle, one on a single edge, one on an edge of each axis, one on every
\* edge.
EmergSets ==
  {E \in SUBSET Edges : Cardinality(E) <= 1} \cup {{"S2J", "W2J"}, Edges}

\* The demand of the configuration the simulator loads (CONFIG_FILE): one
\* with emergency vehicles and no halting vehicle at the block ends, one with
\* queues on the approaches and no emergency vehicle. The phase controller
\* reads no queue and the queue bookkeeping reads no phase, so the two are
\* explored apart. A third demand lets vehicles arrive and emergency
\* vehicles accumulate waiting time, for the episode statistics. The fourth
\* is an episode run to its full length under a caller that holds the phase.
\* The sixth is the first, long enough for a green to be started and then
\* preempted, on a network that does not run out of vehicles. The last is a
\* training run during which an emergency vehicle comes and goes on the
\* eastern approach.
Scenarios ==
  {"emergencies", "queues", "statistics", "full_episode", "training",
   "response", "preemption"}

\* The simulator's answers to the preemption check's vehicle queries
EmergencyAnswers ==
  IF scenario \in {"emergencies", "response"} THEN EmergSets
  ELSE IF scenario = "preemption" THEN {{}, {"E2J"}} ELSE {{}}

\* The simulator's answers to the queue queries at the end of a block, summed
\* over the approaches (total_queue, line 351)
QueueAnswers ==
  IF scenario = "queues" THEN 0 .. MaxQueue
  ELSE IF scenario = "statistics" THEN 0 .. 1 ELSE {0}

\* The simulator's answers to getArrivedNumber() summed over a block
\* (block_arrived, line 329)
ArrivedAnswers == IF scenario = "statistics" THEN 0 .. 1 ELSE {0}

\* The emergency vehicles whose accumulated waiting time grew during a block
\* (_track_emergency_vehicles)
TrackedAnswers == IF scenario = "statistics" THEN {{}, {"ev_0"}} ELSE {{}}

\* The actions the caller of step() requests
RequestedActions ==
  IF scenario = "full_episode" THEN {ACTION_HOLD}
  ELSE IF scenario = "statistics" THEN {ACTION_HOLD, ACTION_EW_THROUGH}
  ELSE IF scenario = "preemption" THEN {ACTION_HOLD, ACTION_NS_LEFT}
  ELSE Actions

\* step() is explored while fewer than StepLimit simulated seconds have run
StepLimit ==
  IF scenario = "full_episode" THEN SIM_DURATION + MaxAfterDone
  ELSE IF scenario = "statistics" THEN MaxStatsStep
  ELSE IF scenario = "training" THEN MaxTrainSimStep
  ELSE IF scenario = "preemption" THEN MaxPreemptSimStep
  ELSE IF scenario = "response" THEN MaxResponseStep ELSE MaxSimStep

\* simulator: the iteration of a block at which getMinExpectedNumber() first
\* returns 0 (0: not in this block); under the training driver the demand
\* runs out at the end of a block or not at all
BreakAnswers ==
  IF scenario \in {"training", "preemption"} THEN {0, DECISION_INTERVAL}
  ELSE IF scenario = "response" THEN {0}
  ELSE 0 .. DECISION_INTERVAL

\* Whether getAllProgramLogics() returns a signal program for the junction
\* (_configure_tl_for_ai_control, lines 600-604); the network a training run
\* loads has one
LogicAnswers ==
  IF scenario \in {"training", "preemption"} THEN {TRUE} ELSE BOOLEAN

NoCall ==
  [op |-> "none", raised |-> FALSE, action |-> ACTION_HOLD,
   pre_timer |-> 0, preempted |-> FALSE, initiated |-> FALSE, cmds |-> <<>>, phaseLog |-> <<>>,
   yellowLens |-> <<>>, greenTimers |-> <<>>, r_flick |-> 0, done |-> FALSE,
   total_queue |-> 0, prev_queue |-> 0, r_delta |-> 0,
   pre_yellow |-> FALSE, wiped |-> <<0, 0, {}>>]

\* TrafficEnv.__init__
EnvInit ==
  /\ connected = FALSE
  /\ phase = NS_THROUGH
  /\ phase_timer = 0
  /\ in_yellow = FALSE
  /\ yellow_countdown = 0
  /\ next_green = NS_THROUGH
  /\ sim_step = 0
  /\ signal = NoSignal
  /\ exhausted_at = 0
  /\ yellow_sims = 0
  /\ prev_total_queue = 0
  /\ total_arrived = 0
  /\ episode_len = 0
  /\ emergency_log = {}
  /\ lastCall = NoCall

\* TrafficEnv.reset: close(), a fresh simulator, _configure_tl_for_ai_control
\* (which commands NS_THROUGH unless the traffic light has no program logic),
\* the bookkeeping, one simulationStep().
ResetKeepsStatistics ==
  \E hasLogic \in BOOLEAN :
    /\ connected' = TRUE
    /\ phase' = NS_THROUGH
    /\ phase_timer' = 0
    /\ in_yellow' = FALSE
    /\ yellow_countdown' = 0
    /\ next_green' = NS_THROUGH
    /\ sim_step' = 1
    /\ signal' = IF hasLogic THEN NS_THROUGH ELSE NoSignal
    /\ exhausted_at' = 0
    /\ yellow_sims' = 0
    /\ prev_total_queue' = 0
    /\ UNCHANGED <<total_arrived, episode_len, emergency_log>>
    /\ lastCall' = [NoCall EXCEPT !.op = "reset",
                                  !.cmds = IF hasLogic THEN <<NS_THROUGH>> ELSE <<>>,
                                  !.phaseLog = <<NS_THROUGH>>,
                                  !.pre_timer = phase_timer,
                                  !.prev_queue = prev_total_queue,
                                  !.pre_yellow = in_yellow,
                                  !.wiped = <<total_arrived, episode_len,
                                                  emergency_log>>]
    /\ UNCHANGED scenario
    /\ UNCHANGED nonEnvVars

\* reset(), lines 240-272, on the environment's own fields
EnvReset(hasLogic) ==
  /\ connected' = TRUE
  /\ phase' = NS_THROUGH
  /\ phase_timer' = 0
  /\ in_yellow' = FALSE
  /\ yellow_countdown' = 0
  /\ next_green' = NS_THROUGH
  /\ sim_step' = 1
  /\ signal' = IF hasLogic THEN NS_THROUGH ELSE NoSignal
  /\ exhausted_at' = 0
  /\ yellow_sims' = 0
  /\ prev_total_queue' = 0
  /\ total_arrived' = 0
  /\ episode_len' = 0
  /\ emergency_log' = {}
  /\ lastCall' = [NoCall EXCEPT !.op = "reset",
                                !.cmds = IF hasLogic THEN <<NS_THROUGH>> ELSE <<>>,
                                !.phaseLog = <<NS_THROUGH>>,
                                !.pre_timer = phase_timer,
                                !.prev_queue = prev_total_queue,
                                !.pre_yellow = in_yellow,
                                !.wiped = <<total_arrived, episode_len,
                                                emergency_log>>]
  /\ UNCHANGED scenario

Reset ==
  \E hasLogic \in LogicAnswers :
    /\ EnvReset(hasLogic)
    /\ UNCHANGED nonEnvVars

\* TrafficEnv.reset when _start_sumo() raises (no simulator binary, or
\* traci.start() fails): close() has run, _connected stays False and the
\* bookkeeping below line 250 is not reached.
ResetFails ==
  /\ connected' = FALSE
  /\ lastCall' = [NoCall EXCEPT !.op = "reset", !.raised = TRUE]
  /\ UNCHANGED <<phase, phase_timer, in_yellow, yellow_countdown, next_green,
                 sim_step, signal, exhausted_at, yellow_sims,
                 prev_total_queue, scenario, total_arrived, episode_len,
                 emergency_log>>
  /\ UNCHANGED nonEnvVars

\* step(), lines 296-395, on the environment's own fields
EnvStep(action, E, brk, total_queue, block_arrived, tracked) ==
  /\ total_arrived' = total_arrived + block_arrived
  /\ episode_len' = episode_len + 1
  /\ emergency_log' = emergency_log \cup tracked
  /\ LET r == StepResult(EnvState, action, E, brk)
     IN /\ phase' = r.s.phase
        /\ phase_timer' = r.s.phase_timer
        /\ in_yellow' = r.s.in_yellow
        /\ yellow_countdown' = r.s.yellow_countdown
        /\ next_green' = r.s.next_green
        /\ sim_step' = r.s.sim_step
        /\ signal' = r.s.signal
        /\ yellow_sims' = r.s.yellow_sims
        /\ exhausted_at' = IF exhausted_at = 0 /\ brk # 0
                             THEN r.s.sim_step ELSE exhausted_at
        /\ lastCall' = [op |-> "step", raised |-> FALSE, action |-> action,
                        pre_timer |-> phase_timer,
                        preempted |-> r.preempted,
                        initiated |-> r.s.initiated, cmds |-> r.s.cmds,
                        phaseLog |-> r.s.phaseLog,
                        yellowLens |-> r.s.yellowLens,
                        greenTimers |-> r.s.greenTimers,
                        r_flick |-> r.r_flick, done |-> r.done,
                        total_queue |-> total_queue,
                        prev_queue |-> prev_total_queue,
                        r_delta |-> GrowthTerm(total_queue, prev_total_queue),
                        pre_yellow |-> in_yellow,
                        wiped |-> <<0, 0, {}>>]
        /\ prev_total_queue' = total_queue
  /\ UNCHANGED <<connected, scenario>>

\* TrafficEnv.step on a connected environment
Step ==
  /\ connected
  /\ sim_step < StepLimit
  /\ exhausted_at # 0 => sim_step < exhausted_at + MaxAfterDone
  /\ \E action \in RequestedActions, E \in EmergencyAnswers,
        brk \in BreakAnswers, total_queue \in QueueAnswers,
        block_arrived \in ArrivedAnswers, tracked \in TrackedAnswers :
       /\ exhausted_at # 0 => brk = 1
       /\ EnvStep(action, E, brk, total_queue, block_arrived, tracked)
  /\ UNCHANGED nonEnvVars

\* TrafficEnv.step before reset() or after close(): RuntimeError
StepNotConnectedRestartsTimer ==
  /\ ~connected
  /\ lastCall' = [NoCall EXCEPT !.op = "step", !.raised = TRUE]
  /\ phase_timer' = 0
  /\ UNCHANGED <<connected, phase, in_yellow, yellow_countdown,
                 next_green, sim_step, signal, exhausted_at, yellow_sims,
                 prev_total_queue, scenario, total_arrived, episode_len,
                 emergency_log>>
  /\ UNCHANGED nonEnvVars

StepNotConnected ==
  /\ ~connected
  /\ lastCall' = [NoCall EXCEPT !.op = "step", !.raised = TRUE]
  /\ UNCHANGED <<connected, phase, phase_timer, in_yellow, yellow_countdown,
                 next_green, sim_step, signal, exhausted_at, yellow_sims,
                 prev_total_queue, scenario, total_arrived, episode_len,
                 emergency_log>>
  /\ UNCHANGED nonEnvVars

\* TrafficEnv.close
EnvClose ==
  /\ connected' = FALSE
  /\ lastCall' = [NoCall EXCEPT !.op = "close"]
  /\ UNCHANGED <<phase, phase_timer, in_yellow, yellow_countdown, next_green,
                 sim_step, signal, exhausted_at, yellow_sims,
                 prev_total_queue, scenario, total_arrived, episode_len,
                 emergency_log>>

Close ==
  /\ EnvClose
  /\ UNCHANGED nonEnvVars

\* No emergency vehicle seen yet. For each incoming edge: steps, the step()
\* calls in a row whose preemption check found an emergency vehicle on the
\* edge while none of its greens was active; fired, whether all of them
\* reported preempted = True.
NoResponse == [e \in Edges |-> [steps |-> 0, fired |-> TRUE]]

\* reset() of the environment whose responses are observed
ResponseReset ==
  /\ \E hasLogic \in LogicAnswers : EnvReset(hasLogic)
  /\ response' = NoResponse
  /\ UNCHANGED <<targetCall, metricsCall, rewardCall, obsCall, stale, pending_override, viz>>
  /\ UNCHANGED <<bufVars, agentVars, ckptVars>>

\* step() of that environment: the vehicles stay on the network
ResponseStep ==
  /\ connected
  /\ sim_step < StepLimit
  /\ \E action \in RequestedActions, E \in EmergencyAnswers,
        brk \in BreakAnswers, total_queue \in QueueAnswers,
        block_arrived \in ArrivedAnswers, tracked \in TrackedAnswers :
       /\ EnvStep(action, E, brk, total_queue, block_arrived, tracked)
       /\ response' =
            [e \in Edges |->
               IF e \in E /\ phase \notin GreensOf(e)
                 THEN [steps |-> response[e].steps + 1,
                       fired |-> response[e].fired /\ lastCall'.preempted]
                 ELSE NoResponse[e]]
  /\ UNCHANGED <<targetCall, metricsCall, rewardCall, obsCall, stale, pending_override, viz>>
  /\ UNCHANGED <<bufVars, agentVars, ckptVars>>

\* ------------------------------------------------------------------------
\* ReplayBuffer (dqn_agent.py)
\* ------------------------------------------------------------------------

\* ReplayBuffer(capacity): dqn_agent.py builds the agent's buffer with
\* BUFFER_SIZE = 100_000; the model runs the same code on a small capacity.
Capacity == 3
\* push() is explored for at most MaxPushes calls
MaxPushes == 5

\* numpy's float64 -> float32 conversion on integer-valued numbers of
\* magnitude below 2^25: exact up to 2^24 (24-bit significand), rounded to
\* the nearest even significand above.
Pow2_24 == 2^24

Float32Magnitude(m) ==
  IF m <= Pow2_24 \/ m % 2 = 0
    THEN m
    ELSE IF (m - 1) % 4 = 0 THEN m - 1 ELSE m + 1

AsFloat32(x) ==
  IF x >= 0 THEN Float32Magnitude(x) ELSE 0 - Float32Magnitude(0 - x)

\* The transitions the callers push: float32 observations, an action index,
\* a Python float reward (a float64; the second one is not representable in
\* float32), a Python bool.
TransitionsIn ==
  { [state |-> 0, action |-> ACTION_HOLD, reward |-> 0,
     next_state |-> 1, done |-> FALSE],
    [state |-> 1, action |-> ACTION_EW_THROUGH, reward |-> Pow2_24 + 1,
     next_state |-> 0, done |-> TRUE] }

\* ReplayBuffer.push: the tuple appended, and deque(maxlen).append
StoredTuple(t) ==
  [state |-> AsFloat32(t.state), action |-> t.action, reward |-> t.reward,
   next_state |-> AsFloat32(t.next_state), done |-> t.done]

PushedUnbounded(buf, t) == Append(buf, StoredTuple(t))

PushedDropNewest(buf, t) ==
  IF Len(buf) >= Capacity
    THEN Append(SubSeq(buf, 1, Len(buf) - 1), StoredTuple(t))
    ELSE Append(buf, StoredTuple(t))

Pushed(buf, t) ==
  IF Len(buf) >= Capacity
    THEN Append(Tail(buf), StoredTuple(t))
    ELSE Append(buf, StoredTuple(t))

\* random.sample(population, k): the orders in which k distinct positions of
\* a population of m can be drawn
DistinctPositions(m, k) ==
  {idx \in [1 .. k -> 1 .. m] :
     \A i, j \in 1 .. k : i # j => idx[i] # idx[j]}

\* np.array(dones, dtype=np.float32) of Python bools
BoolAsFloat32(b) == IF b THEN 1 ELSE 0

NoBatch ==
  [raised |-> TRUE, states |-> <<>>, actions |-> <<>>, rewards |-> <<>>,
   next_states |-> <<>>, dones |-> <<>>]

\* ReplayBuffer.sample, lines 96-103: zip(*batch) and the five arrays, for the
\* positions idx drawn by random.sample
BatchArrays(buf, idx) ==
  LET k == Len(idx) IN
  IF k = 0
    THEN NoBatch   \* zip() of nothing cannot be unpacked into five names
    ELSE [raised |-> FALSE,
          states |-> [i \in 1 .. k |-> AsFloat32(buf[idx[i]].state)],
          actions |-> [i \in 1 .. k |-> buf[idx[i]].action],
          rewards |-> [i \in 1 .. k |-> AsFloat32(buf[idx[i]].reward)],
          next_states |-> [i \in 1 .. k |-> AsFloat32(buf[idx[i]].next_state)],
          dones |-> [i \in 1 .. k |-> BoolAsFloat32(buf[idx[i]].done)]]

\* ReplayBuffer.sample, line 95: the draws random.sample can make; none when
\* batch_size is negative or larger than the population (ValueError)
SampleDrawsClamped(buf, batch_size) ==
  IF batch_size < 0
    THEN {}
    ELSE IF batch_size > Len(buf)
           THEN DistinctPositions(Len(buf), Len(buf))
           ELSE DistinctPositions(Len(buf), batch_size)

SampleDrawsWithReplacement(buf, batch_size) ==
  IF batch_size < 0 \/ batch_size > Len(buf)
    THEN {}
    ELSE [1 .. batch_size -> 1 .. Len(buf)]

SampleDraws(buf, batch_size) ==
  IF batch_size < 0 \/ batch_size > Len(buf)
    THEN {}
    ELSE DistinctPositions(Len(buf), batch_size)

NoBufCall ==
  [op |-> "none", n |-> 0, raised |-> FALSE, idx |-> <<>>, batch |-> NoBatch,
   before |-> <<>>]

\* ReplayBuffer.__init__
BufInit ==
  /\ buffer = <<>>
  /\ pushLog = <<>>
  /\ bufCall = NoBufCall

\* ReplayBuffer.push
Push ==
  /\ Len(pushLog) < MaxPushes
  /\ \E t \in TransitionsIn :
       /\ buffer' = Pushed(buffer, t)
       /\ pushLog' = Append(pushLog, t)
       /\ bufCall' = [NoBufCall EXCEPT !.op = "push"]
  /\ UNCHANGED <<envVars, agentVars, ckptVars, calcVars>>

\* ReplayBuffer.sample
Sample ==
  \E batch_size \in 0 .. (Capacity + 1) :
    LET draws == SampleDraws(buffer, batch_size) IN
    /\ IF draws = {}
         THEN bufCall' = [NoBufCall EXCEPT !.op = "sample", !.n = batch_size,
                                           !.raised = TRUE,
                                           !.before = buffer]
         ELSE \E idx \in draws :
                LET b == BatchArrays(buffer, idx) IN
                bufCall' = [op |-> "sample", n |-> batch_size,
                            raised |-> b.raised, idx |-> idx, batch |-> b,
                            before |-> buffer]
    /\ UNCHANGED <<buffer, pushLog>>
    /\ UNCHANGED <<envVars, agentVars, ckptVars, calcVars>>

\* ------------------------------------------------------------------------
\* DQNAgent (dqn_agent.py)
\* ------------------------------------------------------------------------

\* The hyperparameters that size the exploration. dqn_agent.py sets
\* BATCH_SIZE = 64, MIN_BUFFER_SIZE = 1_000, TARGET_UPDATE_FREQ = 200 (and
\* BUFFER_SIZE = 100_000, Capacity above); the model runs the same code with
\* small values in the same order: BATCH_SIZE <= MIN_BUFFER_SIZE <= Capacity.
BATCH_SIZE == 2
MIN_BUFFER_SIZE == 2
TARGET_UPDATE_FREQ == 3
\* learn() is explored until step_count reaches MaxLearn
MaxLearn == 6
\* network weights are drawn from 0 .. MaxWeights
MaxWeights == 1
\* decay_epsilon() is explored for MaxDecay calls
MaxDecay == 2
\* decay_epsilon() on its own is explored for MaxDecayCalls calls, past the
\* call at which epsilon reaches EPSILON_MIN
MaxDecayCalls == 38

\* epsilon in units of 1/EPS_UNIT
EPS_UNIT == 10000
EPSILON_START == 10000
EPSILON_MIN == 500
EPSILON_DECAY == 9200

\* A network's weights (a state_dict) as an opaque value
Weights == 0 .. MaxWeights

AgentState ==
  [policy_net |-> policy_net, target_net |-> target_net,
   optimiser |-> optimiser, step_count |-> step_count, epsilon |-> epsilon,
   ret |-> "none", synced |-> FALSE]

\* DQNAgent._sync_target
SyncTarget(a) == [a EXCEPT !.target_net = a.policy_net, !.synced = TRUE]

\* DQNAgent.learn, lines 260-262: the step counter and the periodic sync
CountAndSyncHalfAsOften(a) ==
  LET b == [a EXCEPT !.step_count = @ + 1]
  IN IF b.step_count % (2 * TARGET_UPDATE_FREQ) = 0 THEN SyncTarget(b) ELSE b

CountAndSyncBeforeIncrement(a) ==
  LET b == [a EXCEPT !.step_count = @ + 1]
  IN IF a.step_count % TARGET_UPDATE_FREQ = 0 THEN SyncTarget(b) ELSE b

CountAndSync(a) ==
  LET b == [a EXCEPT !.step_count = @ + 1]
  IN IF b.step_count % TARGET_UPDATE_FREQ = 0 THEN SyncTarget(b) ELSE b

\* DQNAgent.learn, line 228: the warm-up test
WarmingUpEmptyOnly(buf) == Len(buf) = 0

WarmingUp(buf) == Len(buf) < MIN_BUFFER_SIZE

\* learn() with a decay of epsilon after every optimiser step
LearnResultDecaysEpsilon(a, buf, w) ==
  IF WarmingUp(buf)
    THEN [a EXCEPT !.ret = "None"]
    ELSE IF SampleDraws(buf, BATCH_SIZE) = {}
           THEN [a EXCEPT !.ret = "raised"]
           ELSE CountAndSync([a EXCEPT !.policy_net = w,
                                       !.optimiser = @ + 1,
                                       !.epsilon = (@ * EPSILON_DECAY) \div EPS_UNIT,
                                       !.ret = "loss"])

\* DQNAgent.learn. w is the policy network's weights after the optimiser
\* step on the sampled mini-batch (any weights: they depend on the batch).
LearnResult(a, buf, w) ==
  IF WarmingUp(buf)
    THEN [a EXCEPT !.ret = "None"]
    ELSE IF SampleDraws(buf, BATCH_SIZE) = {}
           THEN [a EXCEPT !.ret = "raised"]
           ELSE CountAndSync([a EXCEPT !.policy_net = w,
                                       !.optimiser = @ + 1,
                                       !.ret = "loss"])

\* DQNAgent.decay_epsilon: max(EPSILON_MIN, epsilon * EPSILON_DECAY)
DecayedWithoutFloor(eps) == (eps * EPSILON_DECAY) \div EPS_UNIT

Decayed(eps) ==
  LET e == (eps * EPSILON_DECAY) \div EPS_UNIT
  IN IF e > EPSILON_MIN THEN e ELSE EPSILON_MIN

\* epsilon after k decay_epsilon() calls from eps
RECURSIVE DecayedTimes(_, _)
DecayedTimes(eps, k) == IF k = 0 THEN eps ELSE DecayedTimes(Decayed(eps), k - 1)

\* DQNAgent.__init__
AgentInit ==
  /\ policy_net \in Weights
  /\ target_net = policy_net
  /\ optimiser = 0
  /\ step_count = 0
  /\ epsilon = EPSILON_START
  /\ decays = 0
  /\ agentCall = [op |-> "none", ret |-> "none", synced |-> FALSE]

\* The observations select_action() is called with
Observations == 0 .. 1

\* The arg-max of the policy network's output on an observation (lines
\* 200-203). The forward pass is torch's: a function of the weights and the
\* observation, fixed here so that different weights choose differently.
GreedyAction(w, state) == (w + 2 * state) % ACTION_SIZE

\* select_action with the random branch taken whatever epsilon is
SelectActionResultsAlwaysExplore(a, state) ==
  Actions \cup {GreedyAction(a.policy_net, state)}

\* select_action, lines 197-203: the values it can return on an observation.
\* random.random() is in [0, 1): the random branch can be taken when
\* epsilon > 0 and returns random.randint(0, action_size - 1); the greedy
\* branch can be taken when epsilon < 1 and returns the arg-max.
SelectActionResults(a, state) ==
  (IF a.epsilon > 0 THEN Actions ELSE {})
    \cup (IF a.epsilon < EPS_UNIT THEN {GreedyAction(a.policy_net, state)} ELSE {})

\* DQNAgent.select_action: a random action index when random.random(), in
\* [0, 1), is below epsilon (possible when epsilon > 0), else the arg-max of
\* the policy network's outputs (possible when epsilon < 1); no field of the
\* agent is assigned
SelectAction ==
  /\ \E state \in Observations :
       \E action \in SelectActionResults(AgentState, state) :
         agentCall' = [op |-> "select_action", ret |-> action, synced |-> FALSE]
  /\ UNCHANGED <<policy_net, target_net, optimiser, step_count, epsilon, decays>>
  /\ UNCHANGED <<envVars, bufVars, ckptVars, calcVars>>

\* DQNAgent.remember
Remember ==
  /\ Len(pushLog) < MaxPushes
  /\ \E t \in TransitionsIn :
       /\ buffer' = Pushed(buffer, t)
       /\ pushLog' = Append(pushLog, t)
  /\ agentCall' = [op |-> "remember", ret |-> "None", synced |-> FALSE]
  /\ UNCHANGED <<policy_net, target_net, optimiser, step_count, epsilon, decays,
                 bufCall>>
  /\ UNCHANGED <<envVars, ckptVars, calcVars>>

\* learn() on the agent's own fields
AgentLearn(w) ==
  LET r == LearnResult(AgentState, buffer, w) IN
  /\ policy_net' = r.policy_net
  /\ target_net' = r.target_net
  /\ optimiser' = r.optimiser
  /\ step_count' = r.step_count
  /\ epsilon' = r.epsilon
  /\ agentCall' = [op |-> "learn", ret |-> r.ret, synced |-> r.synced]
  /\ UNCHANGED decays

\* DQNAgent.learn
Learn ==
  /\ step_count < MaxLearn
  /\ \E w \in Weights : AgentLearn(w)
  /\ UNCHANGED <<envVars, bufVars, ckptVars, calcVars>>

\* learn() of the agent whose target network's age is observed
StaleLearn ==
  /\ step_count < MaxLearn
  /\ \E w \in Weights : AgentLearn(w)
  /\ stale' = IF agentCall'.synced THEN 0
              ELSE IF agentCall'.ret = "loss" THEN stale + 1 ELSE stale
  /\ UNCHANGED <<targetCall, metricsCall, rewardCall, obsCall, response, pending_override, viz>>
  /\ UNCHANGED <<envVars, bufVars, ckptVars>>

\* remember() of that agent, explored until the buffer is warm, the episode
\* not ending
StaleRemember ==
  /\ Len(pushLog) < MIN_BUFFER_SIZE
  /\ Remember
  /\ ~pushLog'[Len(pushLog')].done

\* DQNAgent.decay_epsilon, explored until MaxDecayCalls calls were made
DecayEpsilonCall ==
  /\ decays < MaxDecayCalls
  /\ epsilon' = Decayed(epsilon)
  /\ decays' = decays + 1
  /\ agentCall' = [op |-> "decay_epsilon", ret |-> "None", synced |-> FALSE]
  /\ UNCHANGED <<policy_net, target_net, optimiser, step_count>>
  /\ UNCHANGED <<envVars, bufVars, ckptVars, calcVars>>

\* DQNAgent.decay_epsilon among the other operations of the agent, where it
\* is explored for MaxDecay calls
DecayEpsilon ==
  /\ epsilon > DecayedTimes(EPSILON_START, MaxDecay) \/ epsilon = EPSILON_MIN
  /\ DecayEpsilonCall

\* ------------------------------------------------------------------------
\* DQNAgent.learn: the Double-DQN bootstrap target (dqn_agent.py, 245-250)
\* ------------------------------------------------------------------------

\* The tensors of learn() hold IEEE floats: besides the finite values there
\* are +inf, -inf and NaN, which a diverged network (or one loaded from a
\* checkpoint) can output. Finite values are integers here; the three others
\* are the values below, out of the range of every finite value of the model.
PosInf == 10^6
NegInf == 0 - 10^6
NaN == 10^6 + 1

IsFinite(x) == x # PosInf /\ x # NegInf /\ x # NaN

\* IEEE multiplication and addition on these values
FMul(a, b) ==
  IF a = NaN \/ b = NaN THEN NaN
  ELSE IF IsFinite(a) /\ IsFinite(b) THEN a * b
  ELSE IF a = 0 \/ b = 0 THEN NaN
  ELSE IF (a > 0) = (b > 0) THEN PosInf ELSE NegInf

FAdd(a, b) ==
  IF a = NaN \/ b = NaN THEN NaN
  ELSE IF IsFinite(a) /\ IsFinite(b) THEN a + b
  ELSE IF ~IsFinite(a) /\ ~IsFinite(b) THEN (IF a = b THEN a ELSE NaN)
  ELSE IF IsFinite(a) THEN b ELSE a

\* GAMMA = 0.95 = GAMMA / GAMMA_UNIT. Network outputs and rewards are whole
\* numbers, targets are in units of 1 / GAMMA_UNIT.
GAMMA == 19
GAMMA_UNIT == 20

\* The width of a network's output row: DQNAgent's default action_size
DEFAULT_ACTION_SIZE == 2

OutputIndices == 1 .. DEFAULT_ACTION_SIZE

\* The network outputs and rewards the target is computed for
QValues == {0 - 1, 0, 2, PosInf, NegInf, NaN}

OutputRows == [OutputIndices -> QValues]

TargetRewards == {0 - 3, 4}

\* tensor.argmax(1) on one row: the first index holding the maximum, a NaN
\* counting as the maximum
ArgMax(row) ==
  LET maximal ==
        IF \E j \in OutputIndices : row[j] = NaN
          THEN {j \in OutputIndices : row[j] = NaN}
          ELSE {j \in OutputIndices : \A k \in OutputIndices : row[k] <= row[j]}
  IN CHOOSE j \in maximal : \A k \in maximal : j <= k

\* learn(), lines 246-250, for one transition of the batch: policy_out and
\* target_out are policy_net(next_state) and target_net(next_state), done is
\* the terminal flag as sample() returns it (0.0 or 1.0)
QTargetMaxOfTarget(reward, done, policy_out, target_out) ==
  LET best_action == ArgMax(target_out)
      q_next == target_out[best_action]
  IN FAdd(GAMMA_UNIT * reward,
          FMul(FMul(GAMMA, q_next), 1 - done))

QTarget(reward, done, policy_out, target_out) ==
  LET best_action == ArgMax(policy_out)
      q_next == target_out[best_action]
  IN FAdd(GAMMA_UNIT * reward,
          FMul(FMul(GAMMA, q_next), 1 - done))

NoTargetCall == [op |-> "none"]

TargetInputs ==
  [op : {"pending"}, reward : TargetRewards, done : {0, 1},
   policy_out : OutputRows, target_out : OutputRows]

\* learn() computes the target of one sampled transition
ComputeTarget ==
  /\ targetCall.op = "pending"
  /\ targetCall' =
       [op |-> "done", reward |-> targetCall.reward, done |-> targetCall.done,
        policy_out |-> targetCall.policy_out,
        target_out |-> targetCall.target_out,
        q_target |-> QTarget(targetCall.reward, targetCall.done,
                             targetCall.policy_out, targetCall.target_out)]
  /\ UNCHANGED <<metricsCall, rewardCall, obsCall, response, stale, pending_override, viz>>
  /\ UNCHANGED <<envVars, bufVars, agentVars, ckptVars>>

\* ------------------------------------------------------------------------
\* TrafficEnv metric collection (traffic_env.py, 632-671)
\* ------------------------------------------------------------------------

INCOMING_LANES == <<"N2J_0", "N2J_1", "S2J_0", "S2J_1", "E2J_0", "W2J_0">>

Lanes == {INCOMING_LANES[i] : i \in 1 .. Len(INCOMING_LANES)}

\* simulator: the lanes of an edge, f"{edge}_{idx}" for idx = 0, 1, ...
LanesOfEdge ==
  [e \in Edges |->
     IF e \in {"N2J", "S2J"} THEN <<e \o "_0", e \o "_1">> ELSE <<e \o "_0">>]

\* simulator: the queries a collection pass sends: the halting number, mean
\* speed and waiting time of a lane, and the lane count of an edge
Queries ==
  ({"queue", "speed", "wait"} \X Lanes) \cup ({"lanes"} \X Edges)

\* simulator: the sets of queries answered with a TraCIException that are
\* explored: none, any single query, and every query about one lane (a lane
\* not yet instantiated)
FailureSets ==
  {{}} \cup {{q} : q \in Queries}
       \cup {{<<"queue", l>>, <<"speed", l>>, <<"wait", l>>} : l \in Lanes}

\* simulator: the values the queries that succeed return, per lane. Waiting
\* times are even, so that the mean over the two lanes of an edge is whole.
ReadingProfiles ==
  {[l \in Lanes |-> [queue |-> 2, speed |-> 5, wait |-> 4]],
   [l \in Lanes |->
      IF l \in {"N2J_0", "S2J_0", "E2J_0"}
        THEN [queue |-> 3, speed |-> 0 - 1, wait |-> 6]
        ELSE [queue |-> 1, speed |-> 7, wait |-> 2]]}

\* _collect_lane_metrics, lines 636-646, for one lane: the three queries in
\* one try block, all three defaulted when any of them raises
LaneMetrics(lane, R, F) ==
  IF \E k \in {"queue", "speed", "wait"} : <<k, lane>> \in F
    THEN [queue |-> 0, speed |-> 0, wait |-> 0]
    ELSE [queue |-> R[lane].queue,
          speed |-> IF R[lane].speed > 0 THEN R[lane].speed ELSE 0,
          wait |-> R[lane].wait]

\* _collect_edge_metrics, lines 661-664: the loop over the lanes of an edge
\* from position i on, inside the try block. The loop ends at the first
\* query that raises, keeping what was summed before it.
RECURSIVE SumLanes(_, _, _, _, _)
SumLanes(lanes, i, R, F, acc) ==
  IF i > Len(lanes) THEN acc
  ELSE IF <<"queue", lanes[i]>> \in F THEN acc
  ELSE LET a1 == [acc EXCEPT !.total_q = @ + R[lanes[i]].queue]
       IN IF <<"wait", lanes[i]>> \in F THEN a1
          ELSE SumLanes(lanes, i + 1, R, F,
                        [a1 EXCEPT !.total_w = @ + R[lanes[i]].wait])

\* _collect_edge_metrics, lines 656-670, for one edge
EdgeMetrics(edge, R, F) ==
  LET failedCount == <<"lanes", edge>> \in F
      n_lanes == IF failedCount THEN 0 ELSE Len(LanesOfEdge[edge])
      acc == IF failedCount
               THEN [total_q |-> 0, total_w |-> 0]
               ELSE SumLanes(LanesOfEdge[edge], 1, R, F,
                             [total_q |-> 0, total_w |-> 0])
  IN [queue |-> acc.total_q,
      wait |-> acc.total_w \div (IF n_lanes > 1 THEN n_lanes ELSE 1)]

NoMetricsCall == [op |-> "none"]

MetricsInputs ==
  [op : {"pending"}, pass : {"lanes", "edges"},
   readings : ReadingProfiles, failing : FailureSets]

\* TrafficEnv._collect_lane_metrics: one pass over INCOMING_LANES
CollectLaneMetrics ==
  /\ metricsCall.op = "pending"
  /\ metricsCall.pass = "lanes"
  /\ metricsCall' =
       [op |-> "done", pass |-> "lanes", raised |-> FALSE,
        readings |-> metricsCall.readings, failing |-> metricsCall.failing,
        result |-> [l \in Lanes |->
                      LaneMetrics(l, metricsCall.readings, metricsCall.failing)]]
  /\ UNCHANGED <<targetCall, rewardCall, obsCall, response, stale, pending_override, viz>>
  /\ UNCHANGED <<envVars, bufVars, agentVars, ckptVars>>

\* TrafficEnv._collect_edge_metrics: one pass over INCOMING_EDGES
CollectEdgeMetrics ==
  /\ metricsCall.op = "pending"
  /\ metricsCall.pass = "edges"
  /\ metricsCall' =
       [op |-> "done", pass |-> "edges", raised |-> FALSE,
        readings |-> metricsCall.readings, failing |-> metricsCall.failing,
        result |-> [e \in Edges |->
                      EdgeMetrics(e, metricsCall.readings, metricsCall.failing)]]
  /\ UNCHANGED <<targetCall, rewardCall, obsCall, response, stale, pending_override, viz>>
  /\ UNCHANGED <<envVars, bufVars, agentVars, ckptVars>>

\* ------------------------------------------------------------------------
\* The observation (traffic_env.py, _build_state)
\* ------------------------------------------------------------------------

\* Observation components are carried in thousandths
OBS_UNIT == 1000

\* The calibration constants; speeds are carried in hundredths of a m/s
MAX_QUEUE == 50
MAX_QUEUE_LANE == 25
MAX_SPEED == 1389
MAX_WAIT == 600
MAX_PHASE_T == 96

\* simulator: the lane readings explored at an observation: light traffic,
\* every lane exactly at the calibration constants, the north approach and
\* the east lane beyond them, and a lane reporting a negative mean speed
\* (the simulator's answer for a lane it has no speed for)
ObsReadings ==
  {[l \in Lanes |-> [queue |-> 2, speed |-> 500, wait |-> 4]],
   [l \in Lanes |-> [queue |-> 25, speed |-> 1389, wait |-> 600]],
   [l \in Lanes |->
      IF l \in {"N2J_0", "N2J_1", "E2J_0"}
        THEN [queue |-> 30, speed |-> 2000, wait |-> 900]
        ELSE [queue |-> 1, speed |-> 700, wait |-> 2]],
   [l \in Lanes |-> [queue |-> 0, speed |-> 0 - 100, wait |-> 0]]}

\* simulator: the failing queries explored at an observation
ObsFailures == {{}, {<<"speed", "S2J_0">>}}

\* The values of _phase_timer explored at an observation
ObsTimers == {0, 48, 96, 200}

\* x / max as an observation component
Normalised(x, max) == (x * OBS_UNIT) \div max

\* _build_state, lines 435-436, with the yellow phases left out
PhaseVecGreensOnly(p) ==
  [i \in 1 .. NUM_PHASES |->
     IF i - 1 = p /\ p \notin {NS_YELLOW, EW_YELLOW} THEN OBS_UNIT ELSE 0]

\* _build_state, lines 435-436: phase_vec
PhaseVec(p) == [i \in 1 .. NUM_PHASES |-> IF i - 1 = p THEN OBS_UNIT ELSE 0]

\* _build_state, line 439: t_norm
TNorm(timer) ==
  LET t == Normalised(timer, MAX_PHASE_T)
  IN IF t < OBS_UNIT THEN t ELSE OBS_UNIT

\* _get_emergency_flags: 1.0 for every approach on which the simulator
\* reports a vehicle of the emergency type
EmergencyFlags(E) ==
  [i \in 1 .. Len(INCOMING_EDGES) |->
     IF INCOMING_EDGES[i] \in E THEN OBS_UNIT ELSE 0]

\* _build_state, lines 424-454: the concatenated vector
BuildStateVector(R, F, p, timer, E) ==
  LET lane_m == [l \in Lanes |-> LaneMetrics(l, R, F)]
      edge_m == [e \in Edges |-> EdgeMetrics(e, R, F)]
      lane_queues == [i \in 1 .. Len(INCOMING_LANES) |->
                        Normalised(lane_m[INCOMING_LANES[i]].queue, MAX_QUEUE_LANE)]
      lane_speeds == [i \in 1 .. Len(INCOMING_LANES) |->
                        Normalised(lane_m[INCOMING_LANES[i]].speed, MAX_SPEED)]
      lane_waits == [i \in 1 .. Len(INCOMING_LANES) |->
                       Normalised(lane_m[INCOMING_LANES[i]].wait, MAX_WAIT)]
      approach_queues == [i \in 1 .. Len(INCOMING_EDGES) |->
                            Normalised(edge_m[INCOMING_EDGES[i]].queue, MAX_QUEUE)]
  IN lane_queues \o lane_speeds \o lane_waits \o approach_queues
       \o PhaseVec(p) \o <<TNorm(timer)>> \o EmergencyFlags(E)

NoObsCall == [op |-> "none"]

ObsInputs ==
  [op : {"pending"}, readings : ObsReadings, failing : ObsFailures,
   phase : Phases, phase_timer : ObsTimers, emergencies : EmergSets]

\* TrafficEnv._build_state
BuildState ==
  /\ obsCall.op = "pending"
  /\ obsCall' =
       [op |-> "done", readings |-> obsCall.readings,
        failing |-> obsCall.failing, phase |-> obsCall.phase,
        phase_timer |-> obsCall.phase_timer,
        emergencies |-> obsCall.emergencies,
        state |-> BuildStateVector(obsCall.readings, obsCall.failing,
                                   obsCall.phase, obsCall.phase_timer,
                                   obsCall.emergencies)]
  /\ UNCHANGED <<targetCall, metricsCall, rewardCall, response, stale, pending_override, viz>>
  /\ UNCHANGED <<envVars, bufVars, agentVars, ckptVars>>

\* ------------------------------------------------------------------------
\* TrafficEnv._compute_reward (traffic_env.py, 458-516)
\* ------------------------------------------------------------------------

\* The per-approach queue at the end of a block is 0, 1 or MaxEdgeQueue
MaxEdgeQueue == 6

\* The reward weights. The terms are kept as integers: the congestion,
\* growth and max-wait terms in tenths of a reward unit (their weights 0.2,
\* 0.5 and 0.4 are 2, 5 and 4 tenths), the balance term in thousandths, the
\* others in whole units.
W_QUEUE_ABS == 2
W_ARRIVED == 3
W_EMERGENCY == 50
W_BALANCE == 4
W_MAX_WAIT == 4
FAIR_WAIT_THRESH == 30
BALANCE_UNIT == 1000

\* The integer square root, found by bisection between lo and hi
RECURSIVE SqrtBetween(_, _, _)
SqrtBetween(n, lo, hi) ==
  IF lo >= hi THEN lo
  ELSE LET mid == (lo + hi + 1) \div 2
       IN IF mid * mid <= n THEN SqrtBetween(n, mid, hi)
                            ELSE SqrtBetween(n, lo, mid - 1)

ISqrt(n) == SqrtBetween(n, 0, 40000)

RECURSIVE SumOf(_, _)
SumOf(seq, i) == IF i > Len(seq) THEN 0 ELSE seq[i] + SumOf(seq, i + 1)

RECURSIVE SumOfSquares(_, _)
SumOfSquares(seq, i) ==
  IF i > Len(seq) THEN 0 ELSE seq[i] * seq[i] + SumOfSquares(seq, i + 1)

RECURSIVE MaxOf(_, _)
MaxOf(seq, i) ==
  IF i = Len(seq) THEN seq[i]
  ELSE LET m == MaxOf(seq, i + 1) IN IF seq[i] > m THEN seq[i] ELSE m

\* std_q / (mean_q + 1.0) of lines 500-502, in thousandths. With n the
\* length of the distribution and T its sum, n^2 * variance =
\* n * sum(q^2) - T^2, so the ratio is sqrt(n * sum(q^2) - T^2) / (T + n).
SpreadRatio(total_queue, queue_distribution) ==
  LET n == IF Len(queue_distribution) > 1 THEN Len(queue_distribution) ELSE 1
      T == SumOf(queue_distribution, 1)
      d == Len(queue_distribution) * SumOfSquares(queue_distribution, 1) - T * T
  IN ISqrt(d * BALANCE_UNIT * BALANCE_UNIT) \div (total_queue + n)

\* _compute_reward, lines 499-505: the balance term, in thousandths
BalanceTermUnclamped(total_queue, queue_distribution) ==
  IF total_queue > 0
    THEN W_BALANCE * (BALANCE_UNIT - SpreadRatio(total_queue, queue_distribution))
    ELSE W_BALANCE * BALANCE_UNIT

BalanceTerm(total_queue, queue_distribution) ==
  IF total_queue > 0
    THEN LET b == BALANCE_UNIT - SpreadRatio(total_queue, queue_distribution)
         IN W_BALANCE * (IF b > 0 THEN b ELSE 0)
    ELSE W_BALANCE * BALANCE_UNIT

\* _compute_reward, lines 509-513: the max-wait term, in tenths
MaxWaitTerm(wait_distribution) ==
  IF Len(wait_distribution) = 0 THEN 0
  ELSE LET worst_wait == MaxOf(wait_distribution, 1)
           excess == IF worst_wait > FAIR_WAIT_THRESH
                       THEN worst_wait - FAIR_WAIT_THRESH ELSE 0
       IN 0 - W_MAX_WAIT * excess

\* _compute_reward: the seven terms
ComputeReward(total_queue, prev, n_arrived, n_emerg_waiting, switched_too_soon, queue_distribution, wait_distribution) ==
  [r_abs |-> 0 - W_QUEUE_ABS * total_queue,
   r_delta |-> GrowthTerm(total_queue, prev),
   r_thru |-> W_ARRIVED * n_arrived,
   r_emerg |-> 0 - W_EMERGENCY * n_emerg_waiting,
   r_flick |-> FlickerTerm(switched_too_soon),
   r_balance |-> BalanceTerm(total_queue, queue_distribution),
   r_max_wait |-> MaxWaitTerm(wait_distribution)]

NoRewardCall == [op |-> "none"]

\* The arguments step() passes: the queue distribution is final_queues, the
\* total queue its sum
QueueLevels == {0, 1, MaxEdgeQueue}

QueueDistributions == [1 .. Len(INCOMING_EDGES) -> QueueLevels]

WaitDistributions == {<<0, 0, 0, 0>>, <<12, 45, 0, 30>>}

RewardInputs ==
  [op : {"pending"}, queue_distribution : QueueDistributions,
   prev_total_queue : {0, 3}, n_arrived : {0, 2}, n_emerg_waiting : {0, 1},
   switched_too_soon : BOOLEAN, wait_distribution : WaitDistributions]

\* step(), lines 351-366: one call of _compute_reward
RewardCall ==
  /\ rewardCall.op = "pending"
  /\ LET total_queue == SumOf(rewardCall.queue_distribution, 1)
     IN rewardCall' =
          [op |-> "done", total_queue |-> total_queue,
           queue_distribution |-> rewardCall.queue_distribution,
           prev_total_queue |-> rewardCall.prev_total_queue,
           switched_too_soon |-> rewardCall.switched_too_soon,
           terms |-> ComputeReward(total_queue, rewardCall.prev_total_queue,
                                   rewardCall.n_arrived,
                                   rewardCall.n_emerg_waiting,
                                   rewardCall.switched_too_soon,
                                   rewardCall.queue_distribution,
                                   rewardCall.wait_distribution)]
  /\ UNCHANGED <<targetCall, metricsCall, obsCall, response, stale, pending_override, viz>>
  /\ UNCHANGED <<envVars, bufVars, agentVars, ckptVars>>

\* ------------------------------------------------------------------------
\* DQNAgent.save / load / set_eval_mode and the scripts that load a model
\* ------------------------------------------------------------------------

STATE_SIZE == 33

\* What a path holds: no file, a file torch.load() cannot read, or a
\* checkpoint dictionary
NoFile == [kind |-> "missing"]
Unreadable == [kind |-> "unreadable"]

\* DQNAgent.save, lines 280-288: the dictionary written
CheckpointSwapsNetworks(a) ==
  [kind |-> "checkpoint",
   dict |-> [policy_net |-> a.target_net, target_net |-> a.policy_net,
             optimiser |-> a.optimiser, epsilon |-> a.epsilon,
             step_count |-> a.step_count,
             state_size |-> STATE_SIZE, action_size |-> ACTION_SIZE]]

Checkpoint(a) ==
  [kind |-> "checkpoint",
   dict |-> [policy_net |-> a.policy_net, target_net |-> a.target_net,
             optimiser |-> a.optimiser, epsilon |-> a.epsilon,
             step_count |-> a.step_count,
             state_size |-> STATE_SIZE, action_size |-> ACTION_SIZE]]

\* Checkpoints written by an earlier version of save(): the weights and the
\* optimiser state, with or without "epsilon" and "step_count"
OlderCheckpoints ==
  UNION {
       {[kind |-> "checkpoint",
         dict |-> [policy_net |-> p, target_net |-> t, optimiser |-> 1]],
        [kind |-> "checkpoint",
         dict |-> [policy_net |-> p, target_net |-> t, optimiser |-> 1,
                   epsilon |-> 2 * EPSILON_MIN]],
        [kind |-> "checkpoint",
         dict |-> [policy_net |-> p, target_net |-> t, optimiser |-> 1,
                   step_count |-> 5]]} : p \in Weights, t \in Weights}

\* dict.get(key, default)
Get(dict, key, default) == IF key \in DOMAIN dict THEN dict[key] ELSE default

\* DQNAgent.load: torch.load() raises on a missing or unreadable file before
\* any field is assigned; otherwise the fields are restored and the target
\* network is synchronised from the loaded policy weights
LoadResultNoSync(a, file) ==
  IF file.kind # "checkpoint"
    THEN [a EXCEPT !.ret = "raised"]
    ELSE [a EXCEPT !.policy_net = file.dict.policy_net,
                   !.target_net = file.dict.target_net,
                   !.optimiser = file.dict.optimiser,
                   !.epsilon = Get(file.dict, "epsilon", EPSILON_MIN),
                   !.step_count = Get(file.dict, "step_count", 0),
                   !.ret = "loaded"]

LoadResult(a, file) ==
  IF file.kind # "checkpoint"
    THEN [a EXCEPT !.ret = "raised"]
    ELSE SyncTarget([a EXCEPT !.policy_net = file.dict.policy_net,
                              !.target_net = file.dict.target_net,
                              !.optimiser = file.dict.optimiser,
                              !.epsilon = Get(file.dict, "epsilon", EPSILON_MIN),
                              !.step_count = Get(file.dict, "step_count", 0),
                              !.ret = "loaded"])

\* The files a path given to load() can hold: the one save() wrote, an older
\* checkpoint, nothing, or something unreadable
FilesToLoad == {disk, NoFile, Unreadable} \cup OlderCheckpoints

NoDriver ==
  [who |-> "none", status |-> "none", mode |-> "none", loaded |-> FALSE,
   path |-> "none"]

\* A freshly constructed agent (DQNAgent.__init__) with initial weights w
FreshAgent(w) ==
  [policy_net |-> w, target_net |-> w, optimiser |-> 0, step_count |-> 0,
   epsilon |-> EPSILON_START, ret |-> "none", synced |-> FALSE]

\* What a script that was asked to load a model does with the file at the
\* model path, from the construction of its agent to the start of its
\* episodes: whether it goes on to its episodes, in which mode, whether the
\* model was loaded, whether the agent was constructed, whether load() was
\* called, and whether set_eval_mode() was.

\* train_agent.train(resume_from), lines 89-95: the agent is constructed and
\* load() is called; an exception of load() ends the script
TrainOutcome(file) ==
  [status |-> IF file.kind = "checkpoint" THEN "episodes" ELSE "stopped",
   mode |-> "train", loaded |-> file.kind = "checkpoint",
   constructed |-> TRUE, called |-> TRUE, eval |-> FALSE]

\* run_ai.run_ai, lines 244-252: sys.exit(1) when the path does not exist,
\* else the agent is constructed, load() is called (an exception ends the
\* script) and then set_eval_mode()
RunAiOutcome(file) ==
  [status |-> IF file.kind = "checkpoint" THEN "episodes" ELSE "stopped",
   mode |-> "ai", loaded |-> file.kind = "checkpoint",
   constructed |-> file.kind # "missing", called |-> file.kind # "missing",
   eval |-> file.kind = "checkpoint"]

\* visualizer_server.simulation_loop in AI mode, lines 260-269: the agent is
\* constructed; when the path exists load() is called (an exception ends the
\* loop) and then set_eval_mode(); when it does not, the mode becomes DEMO
\* and the loop goes on to its episodes
VisualizerOutcomeKeepsAiMode(file) ==
  [status |-> IF file.kind = "unreadable" THEN "stopped" ELSE "episodes",
   mode |-> "ai",
   loaded |-> file.kind = "checkpoint",
   constructed |-> TRUE, called |-> file.kind # "missing",
   eval |-> file.kind = "checkpoint"]

VisualizerOutcome(file) ==
  [status |-> IF file.kind = "unreadable" THEN "stopped" ELSE "episodes",
   mode |-> IF file.kind = "missing" THEN "demo" ELSE "ai",
   loaded |-> file.kind = "checkpoint",
   constructed |-> TRUE, called |-> file.kind # "missing",
   eval |-> file.kind = "checkpoint"]

\* DQNAgent.save
Save ==
  /\ disk' = Checkpoint(AgentState)
  /\ savedAgent' = AgentState
  /\ agentCall' = [op |-> "save", ret |-> "None", synced |-> FALSE]
  /\ UNCHANGED <<policy_net, target_net, optimiser, step_count, epsilon, decays>>
  /\ UNCHANGED <<driver, train>>
  /\ UNCHANGED <<envVars, bufVars, calcVars>>

\* load() on the agent's own fields
AgentLoad(file) ==
  LET r == LoadResult(AgentState, file) IN
  /\ policy_net' = r.policy_net
  /\ target_net' = r.target_net
  /\ optimiser' = r.optimiser
  /\ step_count' = r.step_count
  /\ epsilon' = r.epsilon
  /\ agentCall' = [op |-> "load", ret |-> r.ret, synced |-> r.synced,
                   file |-> file]
  /\ UNCHANGED decays

\* DQNAgent.load on the path of one of the files
Load ==
  /\ \E file \in FilesToLoad : AgentLoad(file)
  /\ UNCHANGED ckptVars
  /\ UNCHANGED <<envVars, bufVars, calcVars>>

\* load() of the agent whose target network's age is observed
StaleLoad ==
  /\ \E file \in FilesToLoad : AgentLoad(file)
  /\ stale' = IF agentCall'.synced THEN 0 ELSE stale
  /\ UNCHANGED <<targetCall, metricsCall, rewardCall, obsCall, response, pending_override, viz>>
  /\ UNCHANGED ckptVars
  /\ UNCHANGED <<envVars, bufVars>>

\* DQNAgent.set_eval_mode
SetEvalMode ==
  /\ epsilon' = 0
  /\ agentCall' = [op |-> "set_eval_mode", ret |-> "None", synced |-> FALSE]
  /\ UNCHANGED <<policy_net, target_net, optimiser, step_count, decays>>
  /\ UNCHANGED ckptVars
  /\ UNCHANGED <<envVars, bufVars, calcVars>>

\* A script whose freshly constructed agent keeps the transitions of the
\* agent before it
ScriptStartKeepsBuffer(who, out, file, w) ==
  LET fresh == FreshAgent(w)
      after == IF out.called THEN LoadResult(fresh, file) ELSE fresh
      a == IF ~out.constructed THEN AgentState
           ELSE IF out.eval THEN [after EXCEPT !.epsilon = 0]
           ELSE after
  IN /\ driver.who = "none"
     /\ policy_net' = a.policy_net
     /\ target_net' = a.target_net
     /\ optimiser' = a.optimiser
     /\ step_count' = a.step_count
     /\ epsilon' = a.epsilon
     /\ decays' = IF out.constructed THEN 0 ELSE decays
     /\ pushLog' = IF out.constructed THEN <<>> ELSE pushLog
     /\ agentCall' = [op |-> "script", ret |-> a.ret, synced |-> a.synced]
     /\ driver' = [who |-> who, status |-> out.status, mode |-> out.mode,
                   loaded |-> out.loaded, path |-> file.kind]
     /\ UNCHANGED <<disk, savedAgent, buffer, bufCall, train>>
     /\ UNCHANGED <<envVars, calcVars>>

\* A script starts on the file at its model path: it builds its agent (with
\* initial weights w), loads the model and goes on to its episodes or ends
ScriptStart(who, out, file, w) ==
  LET fresh == FreshAgent(w)
      after == IF out.called THEN LoadResult(fresh, file) ELSE fresh
      a == IF ~out.constructed THEN AgentState
           ELSE IF out.eval THEN [after EXCEPT !.epsilon = 0]
           ELSE after
  IN /\ driver.who = "none"
     /\ policy_net' = a.policy_net
     /\ target_net' = a.target_net
     /\ optimiser' = a.optimiser
     /\ step_count' = a.step_count
     /\ epsilon' = a.epsilon
     /\ decays' = IF out.constructed THEN 0 ELSE decays
     /\ buffer' = IF out.constructed THEN <<>> ELSE buffer
     /\ pushLog' = IF out.constructed THEN <<>> ELSE pushLog
     /\ agentCall' = [op |-> "script", ret |-> a.ret, synced |-> a.synced]
     /\ driver' = [who |-> who, status |-> out.status, mode |-> out.mode,
                   loaded |-> out.loaded, path |-> file.kind]
     /\ UNCHANGED <<disk, savedAgent, bufCall, train>>
     /\ UNCHANGED <<envVars, calcVars>>

\* train_agent.train(resume_from = path)
TrainResume ==
  \E file \in FilesToLoad, w \in Weights :
    ScriptStart("train", TrainOutcome(file), file, w)

\* run_ai.run_ai(model_path = path)
RunAi ==
  \E file \in FilesToLoad, w \in Weights :
    ScriptStart("run_ai", RunAiOutcome(file), file, w)

\* visualizer_server.simulation_loop(SimMode.AI, model_path = path)
SimulationLoop ==
  \E file \in FilesToLoad, w \in Weights :
    ScriptStart("visualizer", VisualizerOutcome(file), file, w)

\* The agent's fields drawn for the checkpoint operations: the states that
\* remember(), learn() and decay_epsilon() lead to from construction. The
\* target network equals the policy network until the first learn() update
\* and after every TARGET_UPDATE_FREQ-th one; the optimiser has taken one
\* step per update; epsilon has been decayed up to MaxDecay times; the
\* buffer holds MIN_BUFFER_SIZE transitions once an update was made.
TrainedAgentInit ==
  \E p \in Weights, t \in Weights, n \in 0 .. MaxLearn, k \in 0 .. MaxDecay :
    /\ n % TARGET_UPDATE_FREQ = 0 => t = p
    /\ policy_net = p
    /\ target_net = t
    /\ optimiser = n
    /\ step_count = n
    /\ epsilon = DecayedTimes(EPSILON_START, k)
    /\ decays = k
    /\ agentCall = [op |-> "none", ret |-> "none", synced |-> FALSE]
    /\ LET warm == [i \in 1 .. MIN_BUFFER_SIZE |->
                      CHOOSE x \in TransitionsIn : TRUE]
       IN /\ pushLog = IF n = 0 THEN <<>> ELSE warm
          /\ buffer = IF n = 0 THEN <<>>
                      ELSE [i \in 1 .. MIN_BUFFER_SIZE |-> StoredTuple(warm[i])]
    /\ bufCall = NoBufCall

\* ------------------------------------------------------------------------
\* The training driver (scripts/train_agent.py, train)
\* ------------------------------------------------------------------------

\* A training run is explored for MaxEpisodes episodes (n_episodes)
MaxEpisodes == 2
\* and for MaxTrainIters iterations of the rollout loop over all its episodes
MaxTrainIters == 3
\* (MaxPreemptIters with an emergency vehicle about)
MaxPreemptIters == 4

IterLimit ==
  IF scenario = "preemption" THEN MaxPreemptIters ELSE MaxTrainIters

CHECKPOINT_FREQ == 10

\* The observation _build_state returns at simulation time t, as an index
\* into Observations; the observations of consecutive decision points differ
ObservationAt(t) == (t \div DECISION_INTERVAL) % 2

\* No training run under way. state, action, next_state and done are the
\* locals of train(); passed is the observation the last select_action() was
\* given, ops the calls made so far in the current iteration of the rollout
\* loop, k the iterations completed in the episode, rows the episodes whose
\* row is in LOG_FILE.
NoTrain ==
  [pc |-> "none", episode |-> 0, state |-> 0, passed |-> 0,
   action |-> ACTION_HOLD, reward |-> 0, next_state |-> 0, done |-> FALSE,
   k |-> 0, ops |-> <<>>, rows |-> <<>>]

\* train(), lines 120-121: the first episode is about to start
TrainStarted == [NoTrain EXCEPT !.pc = "reset", !.episode = 1]

\* The positions of train() inside its episode loop and before its return
RunningPcs ==
  {"reset", "select", "step", "remember", "learn", "close", "decay", "save",
   "log", "final"}

\* train(), lines 124-126: state = env.reset(seed); done = False
TrainReset ==
  /\ train.pc = "reset"
  /\ \E hasLogic \in LogicAnswers : EnvReset(hasLogic)
  /\ train' = [train EXCEPT !.pc = "select",
                            !.state = ObservationAt(sim_step'),
                            !.done = FALSE, !.k = 0, !.ops = <<>>]
  /\ UNCHANGED <<disk, savedAgent, driver>>
  /\ UNCHANGED <<bufVars, agentVars, calcVars>>

\* train(), line 130: action = agent.select_action(state)
TrainSelect ==
  /\ train.pc = "select"
  /\ \E action \in SelectActionResults(AgentState, train.state)
                      \cap RequestedActions :
       /\ agentCall' = [op |-> "select_action", ret |-> action, synced |-> FALSE]
       /\ train' = [train EXCEPT !.pc = "step", !.action = action,
                                 !.passed = train.state,
                                 !.ops = <<"select_action">>]
  /\ UNCHANGED <<policy_net, target_net, optimiser, step_count, epsilon, decays>>
  /\ UNCHANGED <<disk, savedAgent, driver>>
  /\ UNCHANGED <<envVars, bufVars, calcVars>>

\* train(), line 131: next_state, reward, done, info = env.step(action)
TrainStep ==
  /\ train.pc = "step"
  /\ connected
  /\ sim_step < StepLimit
  /\ \E E \in EmergencyAnswers, brk \in BreakAnswers,
        total_queue \in QueueAnswers, block_arrived \in ArrivedAnswers,
        tracked \in TrackedAnswers :
       EnvStep(train.action, E, brk, total_queue, block_arrived, tracked)
  /\ train' = [train EXCEPT !.pc = "remember",
                            !.next_state = ObservationAt(sim_step'),
                            !.reward = lastCall'.r_flick + lastCall'.r_delta,
                            !.done = lastCall'.done,
                            !.ops = Append(@, "step")]
  /\ UNCHANGED <<disk, savedAgent, driver>>
  /\ UNCHANGED <<bufVars, agentVars, calcVars>>

\* train(), line 132: the arguments of remember(), from the locals of train()
LoopTransitionForcedAction(tr) ==
  [state |-> tr.state,
   action |-> IF lastCall.preempted
                THEN CHOOSE a \in DOMAIN ACTION_TO_PHASE :
                       ACTION_TO_PHASE[a] = phase
                ELSE tr.action,
   reward |-> tr.reward, next_state |-> tr.next_state, done |-> tr.done]

LoopTransition(tr) ==
  [state |-> tr.state, action |-> tr.action, reward |-> tr.reward,
   next_state |-> tr.next_state, done |-> tr.done]

\* train(), line 132: agent.remember(state, action, reward, next_state, done)
TrainRemember ==
  /\ train.pc = "remember"
  /\ Len(pushLog) < IterLimit
  /\ LET t == LoopTransition(train)
     IN /\ buffer' = Pushed(buffer, t)
        /\ pushLog' = Append(pushLog, t)
  /\ agentCall' = [op |-> "remember", ret |-> "None", synced |-> FALSE]
  /\ train' = [train EXCEPT !.pc = "learn", !.ops = Append(@, "remember")]
  /\ UNCHANGED <<policy_net, target_net, optimiser, step_count, epsilon, decays,
                 bufCall>>
  /\ UNCHANGED <<disk, savedAgent, driver>>
  /\ UNCHANGED <<envVars, calcVars>>

\* train(), line 134, with the assignment left out
CarryStateStale(t) == [t EXCEPT !.k = @ + 1]

\* train(), line 134: state = next_state, at the end of an iteration
CarryState(t) == [t EXCEPT !.state = t.next_state, !.k = @ + 1]

\* train(), lines 133-134 and the loop test of line 129: agent.learn();
\* state = next_state; while not done
TrainLearn ==
  /\ train.pc = "learn"
  /\ step_count < MaxLearn
  /\ \E w \in Weights :
       LET r == LearnResult(AgentState, buffer, w) IN
       /\ policy_net' = r.policy_net
       /\ target_net' = r.target_net
       /\ optimiser' = r.optimiser
       /\ step_count' = r.step_count
       /\ epsilon' = r.epsilon
       /\ agentCall' = [op |-> "learn", ret |-> r.ret, synced |-> r.synced]
  /\ train' = [CarryState(train) EXCEPT
                 !.pc = IF train.done THEN "close" ELSE "select",
                 !.ops = Append(@, "learn")]
  /\ UNCHANGED decays
  /\ UNCHANGED <<disk, savedAgent, driver>>
  /\ UNCHANGED <<envVars, bufVars, calcVars>>

\* train(), line 136: env.close()
TrainClose ==
  /\ train.pc = "close"
  /\ EnvClose
  /\ train' = [train EXCEPT !.pc = "decay"]
  /\ UNCHANGED <<disk, savedAgent, driver>>
  /\ UNCHANGED <<bufVars, agentVars, calcVars>>

\* train(), line 137: agent.decay_epsilon()
TrainDecay ==
  /\ train.pc = "decay"
  /\ epsilon' = Decayed(epsilon)
  /\ decays' = decays + 1
  /\ agentCall' = [op |-> "decay_epsilon", ret |-> "None", synced |-> FALSE]
  /\ train' = [train EXCEPT !.pc = "save"]
  /\ UNCHANGED <<policy_net, target_net, optimiser, step_count>>
  /\ UNCHANGED <<disk, savedAgent, driver>>
  /\ UNCHANGED <<envVars, bufVars, calcVars>>

\* train(), lines 148-160: agent.save(BEST_MODEL_PATH) when the episode's
\* average wait is below the best so far (infinite before the first episode
\* ends), and the periodic checkpoint every CHECKPOINT_FREQ episodes
TrainSave ==
  /\ train.pc = "save"
  /\ \E improved \in (IF train.rows = <<>> THEN {TRUE} ELSE BOOLEAN) :
       IF improved \/ train.episode % CHECKPOINT_FREQ = 0
         THEN /\ disk' = Checkpoint(AgentState)
              /\ savedAgent' = AgentState
              /\ agentCall' = [op |-> "save", ret |-> "None", synced |-> FALSE]
         ELSE UNCHANGED <<disk, savedAgent, agentCall>>
  /\ train' = [train EXCEPT !.pc = "log"]
  /\ UNCHANGED <<policy_net, target_net, optimiser, step_count, epsilon, decays>>
  /\ UNCHANGED driver
  /\ UNCHANGED <<envVars, bufVars, calcVars>>

\* train(), lines 163-186 and the loop of line 120: the episode's row is
\* appended to log_rows and written to LOG_FILE; the next episode, or the end
\* of the loop
TrainLog ==
  /\ train.pc = "log"
  /\ train' = [train EXCEPT
                 !.rows = Append(@, train.episode),
                 !.pc = IF train.episode < MaxEpisodes THEN "reset" ELSE "final",
                 !.episode = IF train.episode < MaxEpisodes THEN @ + 1 ELSE @]
  /\ UNCHANGED <<disk, savedAgent, driver>>
  /\ UNCHANGED <<envVars, bufVars, agentVars, calcVars>>

\* train(), lines 199-205: agent.save(FINAL_MODEL_PATH), _save_log(log_rows)
\* (which rewrites LOG_FILE with the same rows), env.close()
TrainFinish ==
  /\ train.pc = "final"
  /\ disk' = Checkpoint(AgentState)
  /\ savedAgent' = AgentState
  /\ agentCall' = [op |-> "save", ret |-> "None", synced |-> FALSE]
  /\ EnvClose
  /\ train' = [train EXCEPT !.pc = "finished"]
  /\ UNCHANGED <<policy_net, target_net, optimiser, step_count, epsilon, decays>>
  /\ UNCHANGED driver
  /\ UNCHANGED <<bufVars, calcVars>>

\* An external interrupt (KeyboardInterrupt) raised while train() runs.
\* train() has no try block around its loop and the script installs no
\* signal handler: the exception leaves train() at the statement it reached
\* and the process ends.
Interrupt ==
  /\ train.pc \in RunningPcs
  /\ train' = [train EXCEPT !.pc = "interrupted"]
  /\ UNCHANGED <<disk, savedAgent, driver>>
  /\ UNCHANGED <<envVars, bufVars, agentVars, calcVars>>

\* No checkpoint written yet, no script started
CkptInit ==
  /\ disk = NoFile
  /\ savedAgent = FreshAgent(0)
  /\ driver = NoDriver
  /\ train = NoTrain

\* ------------------------------------------------------------------------
\* The visualizer bridge (scripts/visualizer_server.py): the WebSocket
\* handlers and the simulation loop, coroutines of one event loop. A
\* coroutine runs without interruption from one suspension to the next, so
\* each action below is the code between two suspensions. broadcast() has no
\* await inside (websockets.broadcast does not block), so awaiting it does
\* not suspend the loop: simulation_loop is suspended only in its two
\* asyncio.sleep() calls, a handler only while it waits for a message.
\* ------------------------------------------------------------------------

\* The server is explored for MaxClients WebSocket clients, MaxMessages
\* messages received over all connections and MaxDecisions decision steps
MaxClients == 2
MaxMessages == 3
MaxDecisions == 3

Clients == 1 .. MaxClients

\* pending_override = None. A stored override carries, next to the two keys
\* of the dictionary, the number of the message that wrote it (msg, history)
NoOverride == [target_phase |-> "none", approach |-> "none", msg |-> 0]

\* ws_handler, lines 143-148
approach_to_phase ==
  [a \in {"north", "south", "east", "west"} |->
     IF a \in {"north", "south"} THEN "NS_GREEN" ELSE "EW_GREEN"]

\* str.lower() on the approach names explored
Lower(a) ==
  CASE a = "North" -> "north"
    [] a = "EAST" -> "east"
    [] OTHER -> a

\* The messages a client sends: force_green for an approach in any case, for
\* an unknown approach or without one, another action, and text that is not
\* JSON
Messages ==
  {[json |-> TRUE, action |-> "force_green", approach |-> a] :
     a \in {"North", "south", "EAST", "up", ""}}
    \cup {[json |-> TRUE, action |-> "pause", approach |-> ""],
          [json |-> FALSE, action |-> "", approach |-> ""]}

\* ws_handler, lines 137-151: the message is JSON, asks for force_green and
\* names a known approach
Accepted(m) ==
  /\ m.json
  /\ m.action = "force_green"
  /\ Lower(m.approach) \in DOMAIN approach_to_phase

\* ws_handler, lines 137-157: the slot after message number n was handled
ReceivedKeepsFirst(slot, m, n) ==
  IF Accepted(m) /\ slot = NoOverride
    THEN [target_phase |-> approach_to_phase[Lower(m.approach)],
          approach |-> Lower(m.approach), msg |-> n]
    ELSE slot

Received(slot, m, n) ==
  IF Accepted(m)
    THEN [target_phase |-> approach_to_phase[Lower(m.approach)],
          approach |-> Lower(m.approach), msg |-> n]
    ELSE slot

\* simulation_loop, lines 304-305: override = pending_override;
\* pending_override = None
TakeOverrideKeepsSlot(slot) == [override |-> slot, pending |-> slot]

TakeOverride(slot) == [override |-> slot, pending |-> NoOverride]

\* The values of env._phase the loop compares with
VizPhases == {"NS_GREEN", "EW_GREEN", "NS_YELLOW", "EW_YELLOW"}

\* simulation_loop, lines 306-311: the action an override becomes
OverrideAction(target, env_phase) ==
  IF target # env_phase /\ env_phase \in {"NS_GREEN", "EW_GREEN"} THEN 1 ELSE 0

\* The server not running. pc is the suspension the simulation loop is at,
\* sub the seconds of the current block that were simulated, ended why the
\* last run ended, override and action are locals of the loop, clients is
\* connected_clients; msgs
\* counts the messages handled, writes those that stored an override,
\* lastWrite is the number of the last of them, decisions counts the
\* decision steps, and applied lists the overrides the decision steps
\* consumed (msg), each with the number of the last message that had stored
\* one by then (latest)
NoViz ==
  [pc |-> "none", sub |-> 0, ended |-> "no", override |-> NoOverride,
   action |-> 0,
   clients |-> {}, msgs |-> 0, writes |-> 0, lastWrite |-> 0, decisions |-> 0,
   applied |-> <<>>]

\* main(), lines 549-550: the server accepts connections and
\* simulation_loop() is about to be entered
VizStarted == [NoViz EXCEPT !.pc = "start"]

\* ws_handler, lines 132-134: a client connects
WsConnect ==
  /\ viz.pc # "none"
  /\ \E c \in Clients \ viz.clients :
       viz' = [viz EXCEPT !.clients = @ \cup {c}]
  /\ UNCHANGED pending_override
  /\ UNCHANGED <<targetCall, metricsCall, rewardCall, obsCall, response, stale>>
  /\ UNCHANGED <<envVars, bufVars, agentVars, ckptVars>>

\* ws_handler, lines 136-160: one message of a connected client is handled
WsMessage ==
  /\ viz.msgs < MaxMessages
  /\ \E c \in viz.clients, m \in Messages :
       /\ pending_override' = Received(pending_override, m, viz.msgs + 1)
       /\ viz' = [viz EXCEPT
                    !.msgs = @ + 1,
                    !.writes = IF Accepted(m) THEN @ + 1 ELSE @,
                    !.lastWrite = IF Accepted(m) THEN viz.msgs + 1 ELSE @]
  /\ UNCHANGED <<targetCall, metricsCall, rewardCall, obsCall, response, stale>>
  /\ UNCHANGED <<envVars, bufVars, agentVars, ckptVars>>

\* ws_handler, lines 162-168: the connection is closed
WsDisconnect ==
  /\ \E c \in viz.clients :
       viz' = [viz EXCEPT !.clients = @ \ {c}]
  /\ UNCHANGED pending_override
  /\ UNCHANGED <<targetCall, metricsCall, rewardCall, obsCall, response, stale>>
  /\ UNCHANGED <<envVars, bufVars, agentVars, ckptVars>>

\* simulation_loop, lines 298-379: a decision step, up to the first
\* suspension after it. It is reached from the start of a run (lines
\* 281-296, at first and after the pause that follows a finished run) and
\* from the sleep that ends a block which left done = False (lines
\* 381-491). env_phase is env._phase, other the action of the mode when no
\* override is pending; the loop is next suspended in the sleep of the
\* block's first second, or, when the simulator has run out of vehicles
\* then (line 372), in the pause after the run (line 508)
SimDecide ==
  /\ \/ viz.pc \in {"start", "sleep_run"}
     \/ viz.pc = "sleep_block" /\ viz.sub = DECISION_INTERVAL
  /\ viz.decisions < MaxDecisions
  /\ \E env_phase \in VizPhases, other \in {0, 1}, brk \in BOOLEAN :
       LET after == [viz EXCEPT
                       !.pc = IF brk THEN "sleep_run" ELSE "sleep_block",
                       !.ended = IF brk THEN "vehicles" ELSE "no",
                       !.sub = 1,
                       !.decisions = @ + 1]
       IN IF pending_override # NoOverride
            THEN LET t == TakeOverride(pending_override) IN
                 /\ pending_override' = t.pending
                 /\ viz' = [after EXCEPT
                              !.override = t.override,
                              !.action = OverrideAction(t.override.target_phase,
                                                        env_phase),
                              !.applied = Append(@, [msg |-> t.override.msg,
                                                     latest |-> viz.lastWrite])]
            ELSE /\ UNCHANGED pending_override
                 /\ viz' = [after EXCEPT !.action = other]
  /\ UNCHANGED <<targetCall, metricsCall, rewardCall, obsCall, response, stale>>
  /\ UNCHANGED <<envVars, bufVars, agentVars, ckptVars>>

\* simulation_loop, lines 347-379: the next second of the block, up to its
\* sleep or, when the simulator has run out of vehicles, to the pause after
\* the run
SimSubStep ==
  /\ viz.pc = "sleep_block"
  /\ viz.sub < DECISION_INTERVAL
  /\ \E brk \in BOOLEAN :
       viz' = [viz EXCEPT !.sub = @ + 1,
                          !.pc = IF brk THEN "sleep_run" ELSE "sleep_block",
                          !.ended = IF brk THEN "vehicles" ELSE "no"]
  /\ UNCHANGED pending_override
  /\ UNCHANGED <<targetCall, metricsCall, rewardCall, obsCall, response, stale>>
  /\ UNCHANGED <<envVars, bufVars, agentVars, ckptVars>>

\* simulation_loop, lines 381-508: the block ends at the time limit (done =
\* True, line 405); the run is complete and the loop pauses before the next
SimComplete ==
  /\ viz.pc = "sleep_block"
  /\ viz.sub = DECISION_INTERVAL
  /\ viz' = [viz EXCEPT !.pc = "sleep_run", !.ended = "time"]
  /\ UNCHANGED pending_override
  /\ UNCHANGED <<targetCall, metricsCall, rewardCall, obsCall, response, stale>>
  /\ UNCHANGED <<envVars, bufVars, agentVars, ckptVars>>

\* No calculation under way
CalcInit ==
  /\ targetCall = NoTargetCall
  /\ metricsCall = NoMetricsCall
  /\ rewardCall = NoRewardCall
  /\ obsCall = NoObsCall
  /\ response = NoResponse
  /\ stale = 0
  /\ pending_override = NoOverride
  /\ viz = NoViz

\* ------------------------------------------------------------------------
\* Specifications
\* ------------------------------------------------------------------------

\* The state after construction; the freshly initialised network weights are
\* arbitrary (Xavier initialisation draws them at random)
Init ==
  /\ EnvInit /\ scenario = "emergencies"
  /\ BufInit
  /\ AgentInit
  /\ CkptInit
  /\ CalcInit

\* The same with the agent's initial weights fixed, for the specifications in
\* which the agent does not act
InitIdleAgent == Init /\ policy_net = 0

\* The environment alone: reset(), step(), close() in any order
EnvNext == Reset \/ ResetFails \/ Step \/ StepNotConnected \/ Close

SpecEnv == InitIdleAgent /\ [][EnvNext]_vars

\* The environment on a configuration whose demand builds queues
InitQueues ==
  /\ EnvInit /\ scenario = "queues"
  /\ BufInit
  /\ AgentInit /\ policy_net = 0
  /\ CkptInit
  /\ CalcInit

SpecQueues == InitQueues /\ [][EnvNext]_vars

\* The environment on a configuration whose demand lets vehicles arrive, queue
\* and carries an emergency vehicle that waits
InitStats ==
  /\ EnvInit /\ scenario = "statistics"
  /\ BufInit
  /\ AgentInit /\ policy_net = 0
  /\ CkptInit
  /\ CalcInit

SpecStats == InitStats /\ [][EnvNext]_vars

\* The episode loop of train() and of run_ai: reset(), then step() while the
\* last step did not return done, then close()
InitRollout ==
  /\ EnvInit /\ scenario = "full_episode"
  /\ BufInit
  /\ AgentInit /\ policy_net = 0
  /\ CkptInit
  /\ CalcInit

RolloutReset ==
  /\ lastCall.op \in {"none", "close"}
  /\ Reset

RolloutStep ==
  /\ lastCall.op \in {"reset", "step"}
  /\ ~lastCall.done
  /\ Step

RolloutClose ==
  /\ lastCall.op = "step"
  /\ lastCall.done
  /\ Close

RolloutNext == RolloutReset \/ RolloutStep \/ RolloutClose

SpecRollout == InitRollout /\ [][RolloutNext]_vars

\* The guard of RolloutStep: the loop is inside an episode that is not done
\* (the environment is then connected and within the explored time)
RolloutStepEnabled ==
  /\ lastCall.op \in {"reset", "step"}
  /\ ~lastCall.done
  /\ connected
  /\ sim_step < StepLimit

\* One execution of the loop body, seen by its guard and by the entry that
\* step() appends to the episode's lists; the steps of RolloutStep are the
\* steps of LoopBody that a behaviour of SpecRollout takes
LoopBody == RolloutStepEnabled /\ episode_len' = episode_len + 1

\* The loop body is straight-line code: while the loop is inside an episode
\* that is not done, the next step() is eventually executed
SpecRolloutFair == SpecRollout /\ WF_episode_len(LoopBody)

\* The environment on a network that keeps its vehicles, emergency vehicles
\* coming and going on every approach
InitResponse ==
  /\ EnvInit /\ scenario = "response"
  /\ BufInit
  /\ AgentInit /\ policy_net = 0
  /\ CkptInit
  /\ CalcInit

ResponseNext == ResponseReset \/ ResponseStep

SpecResponse == InitResponse /\ [][ResponseNext]_vars

\* The agent from its construction on: remember(), learn(), save() and load()
\* in any order (decay_epsilon() assigns epsilon alone)
StaleNext == StaleRemember \/ StaleLearn \/ Save \/ StaleLoad

SpecStale == InitIdleAgent /\ [][StaleNext]_vars

\* The visualizer server with its clients
InitViz ==
  /\ EnvInit /\ scenario = "emergencies"
  /\ BufInit
  /\ AgentInit /\ policy_net = 0
  /\ CkptInit
  /\ targetCall = NoTargetCall
  /\ metricsCall = NoMetricsCall
  /\ rewardCall = NoRewardCall
  /\ obsCall = NoObsCall
  /\ response = NoResponse
  /\ stale = 0
  /\ pending_override = NoOverride
  /\ viz = VizStarted

VizNext ==
  \/ WsConnect \/ WsMessage \/ WsDisconnect
  \/ SimDecide \/ SimSubStep \/ SimComplete

SpecViz == InitViz /\ [][VizNext]_vars

\* The replay buffer alone: push() and sample() in any order
BufNext == Push \/ Sample

SpecBuf == InitIdleAgent /\ [][BufNext]_vars

\* The agent with its buffer: select_action(), remember(), learn() and
\* decay_epsilon() in any order
AgentNext == SelectAction \/ Remember \/ Learn \/ DecayEpsilon

SpecAgent == Init /\ [][AgentNext]_vars

\* Exploration over the episodes: select_action() and decay_epsilon() on a
\* freshly constructed agent
ExploreNext == SelectAction \/ DecayEpsilonCall

SpecExplore == Init /\ [][ExploreNext]_vars

\* Checkpoints: save(), load(), set_eval_mode() and select_action() on a
\* trained agent
InitTrained ==
  /\ EnvInit /\ scenario = "emergencies"
  /\ TrainedAgentInit
  /\ CkptInit
  /\ CalcInit

CkptNext == Save \/ Load \/ SetEvalMode \/ SelectAction

SpecCkpt == InitTrained /\ [][CkptNext]_vars

\* The scripts that are given a model path, started after a training run
\* that may have saved its agent there
ScriptNext == Save \/ Load \/ TrainResume \/ RunAi \/ SimulationLoop

SpecScripts == InitTrained /\ [][ScriptNext]_vars

\* A training run saved its agent and train(resume_from) is started on the
\* file: save(), load(), the resume, then remember() and learn()
InitResume == InitTrained /\ policy_net = 0 /\ decays = 0

\* The run that trained the agent saves it (train(), lines 150-160, 199)
ResumeSave == driver.who = "none" /\ Save

\* The rollout loop of the resumed run, explored until the buffer is warm
\* again
ResumeRemember ==
  /\ driver.status = "episodes"
  /\ Len(pushLog) < MIN_BUFFER_SIZE
  /\ Remember

ResumeLearn == driver.status = "episodes" /\ Learn

\* load() called again on the agent of the resumed run
ResumeLoad == driver.status = "episodes" /\ Load

ResumeNext ==
  ResumeSave \/ TrainResume \/ ResumeRemember \/ ResumeLearn \/ ResumeLoad

SpecResume == InitResume /\ [][ResumeNext]_vars

\* The bootstrap target of learn() on every input
InitTarget ==
  /\ EnvInit /\ scenario = "emergencies"
  /\ BufInit
  /\ AgentInit /\ policy_net = 0
  /\ CkptInit
  /\ targetCall \in TargetInputs
  /\ metricsCall = NoMetricsCall
  /\ rewardCall = NoRewardCall
  /\ obsCall = NoObsCall
  /\ response = NoResponse
  /\ stale = 0
  /\ pending_override = NoOverride
  /\ viz = NoViz

SpecTarget == InitTarget /\ [][ComputeTarget]_vars

\* The metric collection passes on every explored set of simulator answers
InitMetrics ==
  /\ EnvInit /\ scenario = "emergencies"
  /\ BufInit
  /\ AgentInit /\ policy_net = 0
  /\ CkptInit
  /\ targetCall = NoTargetCall
  /\ metricsCall \in MetricsInputs
  /\ rewardCall = NoRewardCall
  /\ obsCall = NoObsCall
  /\ response = NoResponse
  /\ stale = 0
  /\ pending_override = NoOverride
  /\ viz = NoViz

MetricsNext == CollectLaneMetrics \/ CollectEdgeMetrics

SpecMetrics == InitMetrics /\ [][MetricsNext]_vars

\* _compute_reward on every explored argument list
InitReward ==
  /\ EnvInit /\ scenario = "emergencies"
  /\ BufInit
  /\ AgentInit /\ policy_net = 0
  /\ CkptInit
  /\ targetCall = NoTargetCall
  /\ metricsCall = NoMetricsCall
  /\ rewardCall \in RewardInputs
  /\ obsCall = NoObsCall
  /\ response = NoResponse
  /\ stale = 0
  /\ pending_override = NoOverride
  /\ viz = NoViz

SpecReward == InitReward /\ [][RewardCall]_vars

\* A training run from a freshly constructed agent and environment
InitTrain ==
  /\ EnvInit /\ scenario = "training"
  /\ BufInit
  /\ AgentInit /\ policy_net = 0
  /\ disk = NoFile
  /\ savedAgent = FreshAgent(0)
  /\ driver = NoDriver
  /\ train = TrainStarted
  /\ CalcInit

TrainNext ==
  \/ TrainReset \/ TrainSelect \/ TrainStep \/ TrainRemember \/ TrainLearn
  \/ TrainClose \/ TrainDecay \/ TrainSave \/ TrainLog \/ TrainFinish
  \/ Interrupt

SpecTrain == InitTrain /\ [][TrainNext]_vars

\* A training run during which an emergency vehicle comes and goes, the
\* agent's draws being HOLD and one switch request
InitPreempt ==
  /\ EnvInit /\ scenario = "preemption"
  /\ BufInit
  /\ AgentInit /\ policy_net = 0
  /\ disk = NoFile
  /\ savedAgent = FreshAgent(0)
  /\ driver = NoDriver
  /\ train = TrainStarted
  /\ CalcInit

PreemptNext ==
  \/ TrainReset \/ TrainSelect \/ TrainStep \/ TrainRemember \/ TrainLearn
  \/ TrainClose \/ TrainDecay \/ TrainSave \/ TrainLog \/ TrainFinish

SpecPreempt == InitPreempt /\ [][PreemptNext]_vars

\* _build_state on every explored set of readings and controller values
InitObs ==
  /\ EnvInit /\ scenario = "emergencies"
  /\ BufInit
  /\ AgentInit /\ policy_net = 0
  /\ CkptInit
  /\ targetCall = NoTargetCall
  /\ metricsCall = NoMetricsCall
  /\ rewardCall = NoRewardCall
  /\ obsCall \in ObsInputs
  /\ response = NoResponse
  /\ stale = 0
  /\ pending_override = NoOverride
  /\ viz = NoViz

SpecObs == InitObs /\ [][BuildState]_vars

Spec == SpecEnv

\* ------------------------------------------------------------------------
\* Claims about the phase controller and the safety override (SpecEnv)
\* ------------------------------------------------------------------------

\* The minimum hold of a green phase, as the specification states it
MinimumHold(p) == IF p \in {NS_THROUGH, EW_THROUGH} THEN 15 ELSE 8

\* The yellow phase that clears a green phase
ClearingYellow(p) == IF p \in {NS_THROUGH, NS_LEFT} THEN NS_YELLOW ELSE EW_YELLOW

\* The green has been held for its minimum hold and no yellow is in progress
HoldElapsed ==
  phase \in GREEN_PHASES /\ ~in_yellow /\ phase_timer >= MinimumHold(phase)

\* The green phases serving an incoming edge
ServingGreens(e) ==
  IF e \in {"N2J", "S2J"} THEN {NS_THROUGH, NS_LEFT} ELSE {EW_THROUGH, EW_LEFT}

ThroughGreen(e) == IF e \in {"N2J", "S2J"} THEN NS_THROUGH ELSE EW_THROUGH

\* Edge e's serving greens are neither active nor queued behind a yellow
Unserved(e) ==
  /\ phase \notin ServingGreens(e)
  /\ ~(in_yellow /\ next_green \in ServingGreens(e))

BreakPoints == 0 .. DECISION_INTERVAL

\* C1 (minimum hold): whatever the requested action, the emergency vehicles
\* and the point at which demand runs out, the step() that starts in a
\* reachable state enters a yellow only if that state is a green phase held
\* for at least its minimum hold (15 s through, 8 s left); _can_switch() is
\* false below the minimum and true from it on; and the step() that last ran
\* entered its yellow from such a green.
C1_MinimumHold ==
  /\ \A action \in Actions, E \in EmergSets, brk \in BreakPoints :
       StepResult(EnvState, action, E, brk).s.initiated => HoldElapsed
  /\ CanSwitch(EnvState) <=> HoldElapsed
  /\ (lastCall.op = "step" /\ lastCall.initiated) =>
       /\ lastCall.phaseLog[1] \in GREEN_PHASES
       /\ lastCall.pre_timer >= MinimumHold(lastCall.phaseLog[1])
       /\ lastCall.phaseLog[2] \in {NS_YELLOW, EW_YELLOW}

\* C1 witness: a step() entered the yellow from a left-turn green held for
\* exactly its minimum hold of 8 s
C1_Witness ==
  /\ lastCall.op = "step"
  /\ lastCall.initiated
  /\ lastCall.phaseLog[1] = EW_LEFT
  /\ lastCall.pre_timer = MIN_GREEN_LEFT

StepObservation(r) ==
  [phase |-> r.s.phase, next_green |-> r.s.next_green,
   in_yellow |-> r.s.in_yellow, yellow_countdown |-> r.s.yellow_countdown,
   phase_timer |-> r.s.phase_timer, cmds |-> r.s.cmds, r_flick |-> r.r_flick]

\* C3 (the action is not applied when preemption fires): from every reachable
\* state and for all simulator answers for which
\* _check_emergency_preemption() returns True, step() leaves the same
\* controller state, sends the same signal commands and computes the same
\* flicker term for every requested action 0..4 (each compared with HOLD).
C3_ActionIgnoredWhenPreempted ==
  connected =>
    \A E \in EmergSets, brk \in BreakPoints :
      CheckEmergencyPreemption(EnvState, E)[1] =>
        \A action \in Actions :
          StepObservation(StepResult(EnvState, action, E, brk))
            = StepObservation(StepResult(EnvState, ACTION_HOLD, E, brk))

\* C3 witness: a preempted step() in which the agent asked for a switch
\* before the minimum hold had elapsed, and which carries no flicker penalty
C3_Witness ==
  /\ lastCall.op = "step"
  /\ lastCall.preempted
  /\ lastCall.action = ACTION_NS_LEFT
  /\ ~lastCall.initiated
  /\ phase_timer < MinimumHold(phase)
  /\ lastCall.r_flick = 0

\* C4 (one active phase, yellow between greens): the active phase is one of
\* the six phases, and within an episode every change of the active phase
\* away from a green goes to the yellow clearing that green, and every green
\* is entered from a yellow; reset() starts a new simulation in NS_THROUGH.
C4_YellowBetweenGreens ==
  /\ phase \in Phases
  /\ lastCall.op \in {"reset", "step"} /\ ~lastCall.raised =>
       /\ lastCall.phaseLog[Len(lastCall.phaseLog)] = phase
       /\ \A i \in 1 .. (Len(lastCall.phaseLog) - 1) :
            LET a == lastCall.phaseLog[i]
                b == lastCall.phaseLog[i + 1]
            IN /\ a \in GREEN_PHASES => b = ClearingYellow(a)
               /\ b \in GREEN_PHASES => a \in {NS_YELLOW, EW_YELLOW}

\* C4 witness: a step() changed the green within the N/S axis, from
\* NS_THROUGH to NS_LEFT, through NS_YELLOW
C4_Witness ==
  /\ lastCall.op = "step"
  /\ lastCall.phaseLog = <<NS_THROUGH, NS_YELLOW, NS_LEFT>>

\* C5 as stated (yellow clearance): every completed switch kept the yellow
\* signal commanded for exactly YELLOW_DURATION = 3 simulator steps, and the
\* elapsed-time counter was 0 when the target green was set.
C5_YellowLastsYellowDuration ==
  lastCall.op = "step" =>
    \A i \in 1 .. Len(lastCall.yellowLens) :
      /\ lastCall.yellowLens[i] = YELLOW_DURATION
      /\ lastCall.greenTimers[i] = 0

\* ------------------------------------------------------------------------
\* Claims about the replay buffer (SpecBuf)
\* ------------------------------------------------------------------------

\* C6 (ring semantics): after any pushes, the buffer's length is the smaller
\* of the number of pushes and the capacity, and the buffer holds the last
\* that many pushed transitions, field by field and in push order (so the
\* older ones were evicted, oldest first).
C6_RingSemantics ==
  LET n == Len(pushLog)
      m == IF n < Capacity THEN n ELSE Capacity
  IN /\ Len(buffer) = m
     /\ Len(buffer) <= Capacity
     /\ \A i \in 1 .. m : buffer[i] = pushLog[n - m + i]

\* C6 witness: Capacity + 2 pushes were made, and the oldest transition now
\* held is the third pushed, which differs from the two evicted ones
C6_Witness ==
  /\ bufCall.op = "push"
  /\ Len(pushLog) = Capacity + 2
  /\ buffer[1] = pushLog[3]
  /\ pushLog[3] # pushLog[2]
  /\ pushLog[2] = pushLog[1]

\* A Python bool compared with a number: True == 1, False == 0
TruthValue(b) == IF b THEN 1 ELSE 0

\* The positions drawn are n distinct positions of the buffer, and the five
\* arrays have n entries each
DrawnFromDistinctPositions ==
  /\ Len(bufCall.idx) = bufCall.n
  /\ \A i \in 1 .. bufCall.n : bufCall.idx[i] \in 1 .. Len(buffer)
  /\ \A i, j \in 1 .. bufCall.n : i # j => bufCall.idx[i] # bufCall.idx[j]
  /\ Len(bufCall.batch.states) = bufCall.n
  /\ Len(bufCall.batch.actions) = bufCall.n
  /\ Len(bufCall.batch.rewards) = bufCall.n
  /\ Len(bufCall.batch.next_states) = bufCall.n
  /\ Len(bufCall.batch.dones) = bufCall.n

\* C7 as stated (sampling): sample(n) with n <= len(buffer) returns n
\* transitions from n distinct positions, each equal field by field to the
\* stored transition, and leaves the buffer unchanged.
C7_SampleReturnsStored ==
  (bufCall.op = "sample" /\ bufCall.n <= Len(bufCall.before)) =>
    /\ ~bufCall.raised
    /\ DrawnFromDistinctPositions
    /\ \A i \in 1 .. bufCall.n :
         LET stored == buffer[bufCall.idx[i]] IN
         /\ bufCall.batch.states[i] = stored.state
         /\ bufCall.batch.actions[i] = stored.action
         /\ bufCall.batch.rewards[i] = stored.reward
         /\ bufCall.batch.next_states[i] = stored.next_state
         /\ bufCall.batch.dones[i] = TruthValue(stored.done)
    /\ buffer = bufCall.before

\* The magnitude of x
Magnitude(x) == IF x >= 0 THEN x ELSE 0 - x

\* C7 as amended: sample(n) with 1 <= n <= len(buffer) returns n transitions
\* from n distinct positions, each equal to the stored transition in state,
\* action, next state and terminal flag (as 0.0/1.0), with the reward
\* rounded to float32 (exactly the stored reward when that is representable
\* in float32, else its nearest float32 neighbour), and leaves the buffer
\* unchanged; sample(0) raises.
C7_SampleReturnsConverted ==
  /\ (bufCall.op = "sample" /\ 1 <= bufCall.n /\ bufCall.n <= Len(bufCall.before)) =>
       /\ ~bufCall.raised
       /\ DrawnFromDistinctPositions
       /\ \A i \in 1 .. bufCall.n :
            LET stored == buffer[bufCall.idx[i]] IN
            /\ bufCall.batch.states[i] = stored.state
            /\ bufCall.batch.actions[i] = stored.action
            /\ Magnitude(stored.reward) <= 2^24 =>
                 bufCall.batch.rewards[i] = stored.reward
            /\ Magnitude(bufCall.batch.rewards[i] - stored.reward) <= 1
            /\ bufCall.batch.next_states[i] = stored.next_state
            /\ bufCall.batch.dones[i] = TruthValue(stored.done)
       /\ buffer = bufCall.before
  /\ (bufCall.op = "sample" /\ bufCall.n = 0) =>
       /\ bufCall.raised
       /\ buffer = bufCall.before

\* C7 witness: a sample of two transitions was returned, one of them with a
\* reward that float32 cannot represent
C7_Witness ==
  /\ bufCall.op = "sample"
  /\ bufCall.n = 2
  /\ ~bufCall.raised
  /\ bufCall.batch.rewards[1] # buffer[bufCall.idx[1]].reward
  /\ bufCall.batch.rewards[2] = buffer[bufCall.idx[2]].reward

\* C8 (over-sampling is an error): sample(n) with n > len(buffer) raises,
\* returns no batch and leaves the buffer unchanged.
C8_OverSamplingRaises ==
  (bufCall.op = "sample" /\ bufCall.n > Len(bufCall.before)) =>
    /\ bufCall.raised
    /\ bufCall.batch = NoBatch
    /\ bufCall.idx = <<>>
    /\ buffer = bufCall.before

\* C8 witness: sample(n) raised on a non-empty buffer holding n - 1
\* transitions
C8_Witness ==
  /\ bufCall.op = "sample"
  /\ bufCall.raised
  /\ Len(buffer) > 0
  /\ bufCall.n = Len(buffer) + 1

\* ------------------------------------------------------------------------
\* Claims about the agent (SpecAgent)
\* ------------------------------------------------------------------------

\* C9 (learn() during warm-up): every learn() call made while the buffer
\* holds fewer than MIN_BUFFER_SIZE transitions returns None without raising
\* and leaves the policy weights, the target weights, the optimiser state,
\* step_count, epsilon and the buffer unchanged.
C9_LearnDuringWarmup ==
  [][(agentCall'.op = "learn" /\ Len(buffer) < MIN_BUFFER_SIZE) =>
       /\ agentCall'.ret = "None"
       /\ UNCHANGED <<policy_net, target_net, optimiser, step_count, epsilon,
                      buffer>>]_vars

\* C9 witness: learn() returned None with the buffer one transition short of
\* MIN_BUFFER_SIZE, after an earlier decay_epsilon()
C9_Witness ==
  /\ agentCall.op = "learn"
  /\ agentCall.ret = "None"
  /\ Len(buffer) = MIN_BUFFER_SIZE - 1
  /\ epsilon < EPSILON_START

\* C10 (target synchronisation schedule): a learn() call that performs an
\* update increments step_count by exactly 1 and overwrites the target
\* network with the (updated) policy weights if and only if the new
\* step_count is a multiple of TARGET_UPDATE_FREQ; a learn() call that
\* performs no update, select_action, remember and decay_epsilon leave the
\* target network as it was.
C10_TargetSyncSchedule ==
  [][/\ (agentCall'.op = "learn" /\ agentCall'.ret = "loss") =>
          /\ step_count' = step_count + 1
          /\ IF step_count' % TARGET_UPDATE_FREQ = 0
               THEN agentCall'.synced /\ target_net' = policy_net'
               ELSE ~agentCall'.synced /\ target_net' = target_net
     /\ (agentCall'.op = "learn" /\ agentCall'.ret # "loss") =>
          /\ step_count' = step_count
          /\ target_net' = target_net
     /\ agentCall'.op \in {"select_action", "remember", "decay_epsilon"} =>
          target_net' = target_net]_vars

\* C10 witness: the update that made step_count equal to TARGET_UPDATE_FREQ
\* copied the policy weights into the target network
C10_Witness ==
  /\ agentCall.op = "learn"
  /\ agentCall.synced
  /\ step_count = TARGET_UPDATE_FREQ
  /\ target_net = policy_net

\* ------------------------------------------------------------------------
\* Claims about the bootstrap target of learn() (SpecTarget)
\* ------------------------------------------------------------------------

\* The action the policy network's output row selects: the first index whose
\* output no other output exceeds (rows without NaN)
Selected(policy_out) ==
  CHOOSE a \in OutputIndices :
    /\ \A k \in OutputIndices : policy_out[k] <= policy_out[a]
    /\ \A k \in OutputIndices :
         (\A j \in OutputIndices : policy_out[j] <= policy_out[k]) => a <= k

\* The value the target network gives the action the policy network selects
BootstrapValue(call) == call.target_out[Selected(call.policy_out)]

NoNaN(row) == \A k \in OutputIndices : row[k] # NaN

RECURSIVE PowerOfDecay(_)
PowerOfDecay(k) ==
  IF k = 0 THEN EPSILON_START
  ELSE (PowerOfDecay(k - 1) * EPSILON_DECAY) \div EPS_UNIT

\* max(EPSILON_MIN, EPSILON_START * EPSILON_DECAY^k)
ClosedForm(k) ==
  IF PowerOfDecay(k) > EPSILON_MIN THEN PowerOfDecay(k) ELSE EPSILON_MIN

\* C12 (epsilon decay): after k successive decay_epsilon() calls on a freshly
\* constructed agent epsilon is max(EPSILON_MIN, EPSILON_START *
\* EPSILON_DECAY^k); it is never below EPSILON_MIN; no call increases it; and
\* once it is EPSILON_MIN it stays there.
C12_EpsilonDecay ==
  /\ [](epsilon = ClosedForm(decays) /\ epsilon >= EPSILON_MIN)
  /\ [][/\ epsilon' <= epsilon
        /\ epsilon = EPSILON_MIN => epsilon' = EPSILON_MIN]_vars

\* C12 witness: the call that reached EPSILON_MIN was followed by further
\* calls, the product alone being below EPSILON_MIN by then
C12_Witness ==
  /\ agentCall.op = "decay_epsilon"
  /\ decays = MaxDecayCalls
  /\ epsilon = EPSILON_MIN
  /\ PowerOfDecay(decays - 1) < EPSILON_MIN
  /\ ClosedForm(1) = EPSILON_DECAY

\* ------------------------------------------------------------------------
\* Claims about checkpoints (SpecCkpt) and the scripts that load them
\* (SpecScripts)
\* ------------------------------------------------------------------------

\* The load() that last ran restored the file the last save() wrote
LoadedTheSavedFile ==
  /\ agentCall.op = "load"
  /\ agentCall.ret = "loaded"
  /\ disk.kind = "checkpoint"
  /\ agentCall.file = disk

\* C13 (checkpoint round-trip): after save(path) and a later load(path),
\* whatever the agent was when it loaded, the agent selects in evaluation
\* mode the action the saved agent selects, for every input state, and its
\* epsilon and step_count are the saved ones; and an agent in evaluation mode
\* selects the arg-max of its policy network.
C13_CheckpointRoundTrip ==
  /\ LoadedTheSavedFile =>
       /\ \A state \in Observations :
            GreedyAction(policy_net, state)
              = GreedyAction(savedAgent.policy_net, state)
       /\ epsilon = savedAgent.epsilon
       /\ step_count = savedAgent.step_count
  /\ (agentCall.op = "select_action" /\ epsilon = 0) =>
       \E state \in Observations :
         agentCall.ret = GreedyAction(policy_net, state)

\* C13 witness: a trained agent whose target network lagged its policy
\* network was saved and loaded back: the policy weights, the decayed epsilon
\* and the step count are the saved ones, the target weights are not
C13_Witness ==
  /\ LoadedTheSavedFile
  /\ savedAgent.step_count > 0
  /\ savedAgent.epsilon < EPSILON_START
  /\ savedAgent.target_net # savedAgent.policy_net
  /\ policy_net = savedAgent.policy_net
  /\ target_net # savedAgent.target_net

\* C14 (load() re-synchronises and tolerates old checkpoints): the load() of
\* any checkpoint dictionary succeeds, leaves the target network's weights
\* equal to the loaded policy weights whatever target weights the checkpoint
\* stores, takes epsilon and step_count from the checkpoint when it has
\* them, and sets epsilon = EPSILON_MIN and step_count = 0 when it lacks
\* them.
C14_LoadSyncsAndDefaults ==
  (agentCall.op = "load" /\ agentCall.file.kind = "checkpoint") =>
    LET dict == agentCall.file.dict
    IN /\ agentCall.ret = "loaded"
       /\ policy_net = dict.policy_net
       /\ target_net = dict.policy_net
       /\ epsilon = (IF "epsilon" \in DOMAIN dict
                       THEN dict.epsilon ELSE EPSILON_MIN)
       /\ step_count = (IF "step_count" \in DOMAIN dict
                          THEN dict.step_count ELSE 0)

\* C14 witness: a checkpoint holding neither "epsilon" nor "step_count", and
\* target weights unlike its policy weights, was loaded into a trained agent
C14_Witness ==
  /\ agentCall.op = "load"
  /\ agentCall.ret = "loaded"
  /\ DOMAIN agentCall.file.dict = {"policy_net", "target_net", "optimiser"}
  /\ agentCall.file.dict.target_net # agentCall.file.dict.policy_net
  /\ target_net = policy_net
  /\ epsilon = EPSILON_MIN
  /\ step_count = 0
  /\ savedAgent.step_count > 0

\* The step is a load() of a path that holds no checkpoint
LoadOfInvalidPath ==
  agentCall'.op = "load" /\ agentCall'.file.kind # "checkpoint"

\* load() raised and assigned no field of the agent
RaisedUnmodified ==
  /\ agentCall'.ret = "raised"
  /\ UNCHANGED <<policy_net, target_net, optimiser, step_count, epsilon>>

\* A script was asked to load a model and did not load it
ModelNotLoaded == driver.who # "none" /\ ~driver.loaded

ControllerState ==
  <<phase, phase_timer, in_yellow, yellow_countdown, next_green, sim_step,
    signal, prev_total_queue>>

\* C16 (step() while not connected): a step() called while the environment
\* is not connected (before the first reset(), after close(), after a reset()
\* that failed to start the simulator) raises and changes neither the
\* connection nor the controller and episode state; a reset() that returns
\* leaves the environment connected; and a step() called while connected
\* does not raise.
C16_StepNeedsConnection ==
  /\ [][(lastCall'.op = "step" /\ ~connected) =>
          /\ lastCall'.raised
          /\ ~connected'
          /\ UNCHANGED ControllerState]_vars
  /\ [][(lastCall'.op = "reset" /\ ~lastCall'.raised) => connected']_vars
  /\ [][(lastCall'.op = "step" /\ connected) => ~lastCall'.raised]_vars

\* C16 witness: step() raised after a close() in the middle of an episode,
\* the controller still in the phase and at the simulated second where the
\* episode was left
C16_Witness ==
  /\ lastCall.op = "step"
  /\ lastCall.raised
  /\ ~connected
  /\ phase # NS_THROUGH
  /\ phase_timer > 0
  /\ sim_step > 1

\* ------------------------------------------------------------------------
\* Claims about metric collection (SpecMetrics)
\* ------------------------------------------------------------------------

\* A query the lane pass sends about lane l was answered with an exception
LaneQueryFailed(l, F) ==
  \E k \in {"queue", "speed", "wait"} : <<k, l>> \in F

\* A query the edge pass sends about edge e was answered with an exception
EdgeQueryFailed(e, F) ==
  \/ <<"lanes", e>> \in F
  \/ \E i \in 1 .. Len(LanesOfEdge[e]), k \in {"queue", "wait"} :
       <<k, LanesOfEdge[e][i]>> \in F

\* C17 as stated (query failures degrade to the default): a collection pass
\* never raises, and every lane or edge about which a query failed is
\* reported with queue 0 and wait 0, at whatever point of the pass the
\* failure occurs.
C17_FailedQueryReportsZero ==
  metricsCall.op = "done" =>
    /\ ~metricsCall.raised
    /\ metricsCall.pass = "lanes" =>
         \A l \in Lanes :
           LaneQueryFailed(l, metricsCall.failing) =>
             metricsCall.result[l].queue = 0 /\ metricsCall.result[l].wait = 0
    /\ metricsCall.pass = "edges" =>
         \A e \in Edges :
           EdgeQueryFailed(e, metricsCall.failing) =>
             metricsCall.result[e].queue = 0 /\ metricsCall.result[e].wait = 0

\* C18 as stated (flicker penalty): a step() that starts in a green phase
\* carries the penalty -W_FLICKER in its reward if and only if the agent
\* requested a switch, the step was not a safety override, and the time
\* elapsed in the active phase when the request was made was below that
\* phase's minimum hold.
C18_FlickerIffRequestTooSoon ==
  (connected /\ ~in_yellow /\ phase \in GREEN_PHASES) =>
    \A action \in Actions, E \in EmergSets, brk \in BreakPoints :
      LET r == StepResult(EnvState, action, E, brk)
      IN r.r_flick = 0 - W_FLICKER
           <=> /\ action # ACTION_HOLD
               /\ ~r.preempted
               /\ phase_timer < MinimumHold(phase)

\* The call that last ran was a step() that returned
StepReturned(call) == call.op = "step" /\ ~call.raised

C20_BalanceTermBounds ==
  rewardCall.op = "done" =>
    /\ rewardCall.total_queue = 0 =>
         rewardCall.terms.r_balance = W_BALANCE * BALANCE_UNIT
    /\ rewardCall.terms.r_balance >= 0
    /\ rewardCall.terms.r_balance <= W_BALANCE * BALANCE_UNIT

\* C20 witness: with an empty junction the balance term is W_BALANCE while
\* the throughput, emergency, flicker and max-wait terms are all non-zero
C20_Witness ==
  /\ rewardCall.op = "done"
  /\ rewardCall.total_queue = 0
  /\ rewardCall.terms.r_balance = W_BALANCE * BALANCE_UNIT
  /\ rewardCall.terms.r_thru > 0
  /\ rewardCall.terms.r_emerg < 0
  /\ rewardCall.terms.r_flick < 0
  /\ rewardCall.terms.r_max_wait < 0

\* ------------------------------------------------------------------------
\* Claims about requests without effect, preemption detection and reset()
\* (SpecEnv, SpecStats), and about the length of an episode (SpecRollout)
\* ------------------------------------------------------------------------

\* The action is HOLD or names the green phase that is active
NoEffectiveRequest(action) ==
  \/ action = ACTION_HOLD
  \/ action \in DOMAIN ACTION_TO_PHASE /\ ACTION_TO_PHASE[action] = phase

\* The simulated seconds of a block that breaks at iteration brk (0: never)
BlockSeconds(brk) == IF brk = 0 THEN DECISION_INTERVAL ELSE brk

\* The step() left the controller where it was and sent no command
NoTransition(r, brk) ==
  /\ r.s.phase = phase
  /\ r.s.next_green = next_green
  /\ r.s.in_yellow = in_yellow
  /\ r.s.cmds = <<>>
  /\ r.s.phase_timer = phase_timer + BlockSeconds(brk)

UnservedAmong(E) == {e \in E : Unserved(e)}

\* The first edge of U in the scan order of INCOMING_EDGES: N, S, E, W
FirstInScanOrder(U) ==
  INCOMING_EDGES[CHOOSE i \in 1 .. Len(INCOMING_EDGES) :
                   /\ INCOMING_EDGES[i] \in U
                   /\ \A j \in 1 .. (i - 1) : INCOMING_EDGES[j] \notin U]

\* C29 (preemption detection): in every reachable controller state and for
\* every set of incoming edges carrying an emergency vehicle,
\* _check_emergency_preemption() returns (True, g) exactly when one of those
\* edges is served neither by the active phase nor, while in yellow, by the
\* queued target; g is then the through green of the first such edge in the
\* order N, S, E, W, never a left-turn phase; otherwise it returns
\* (False, None).
C29_PreemptionDetection ==
  \A E \in SUBSET Edges :
    LET pre == CheckEmergencyPreemption(EnvState, E)
        U == UnservedAmong(E)
    IN IF U # {}
         THEN /\ pre[1] = TRUE
              /\ pre[2] = ThroughGreen(FirstInScanOrder(U))
              /\ pre[2] \in {NS_THROUGH, EW_THROUGH}
         ELSE pre = <<FALSE, None>>

\* C29 witness: a step() that started in the left-turn green EW_LEFT was
\* preempted for a north-south approach and queued NS_THROUGH behind the
\* yellow
C29_Witness ==
  /\ lastCall.op = "step"
  /\ lastCall.preempted
  /\ lastCall.initiated
  /\ lastCall.phaseLog[1] = EW_LEFT
  /\ next_green = NS_THROUGH

\* The last call was a reset() that returned
ResetReturned == lastCall.op = "reset" /\ ~lastCall.raised

\* C30 (reset restores the initial controller state): whatever state the
\* previous episode ended in, after a reset() that returned the phase is
\* NS_THROUGH, the yellow flag is false, the yellow countdown and the phase
\* timer are 0, the queued target is NS_THROUGH, the previous total queue is
\* 0, the per-episode statistics (total_arrived, the reward, queue and wait
\* lists, whose common length is episode_len, and the emergency log) are
\* empty, and the simulation time counter is 1.
C30_ResetRestoresInitialState ==
  ResetReturned =>
    /\ phase = NS_THROUGH
    /\ ~in_yellow
    /\ yellow_countdown = 0
    /\ phase_timer = 0
    /\ next_green = NS_THROUGH
    /\ prev_total_queue = 0
    /\ total_arrived = 0
    /\ episode_len = 0
    /\ emergency_log = {}
    /\ sim_step = 1

\* C30 witness: a reset() called while a yellow was in progress (the episode
\* before ended inside it), with vehicles arrived, statistics recorded, an
\* emergency vehicle logged and a non-zero previous queue, all of them wiped
C30_Witness ==
  /\ ResetReturned
  /\ lastCall.pre_yellow
  /\ lastCall.pre_timer > 0
  /\ lastCall.prev_queue > 0
  /\ lastCall.wiped[1] > 0
  /\ lastCall.wiped[2] > 0
  /\ lastCall.wiped[3] # {}
  /\ sim_step = 1
  /\ total_arrived = 0

\* ceil((SIM_DURATION - 1) / DECISION_INTERVAL): the steps of the longest
\* episode
MostSteps == (SIM_DURATION - 1 + DECISION_INTERVAL - 1) \div DECISION_INTERVAL

\* done is True exactly when the simulation time reached SIM_DURATION or the
\* simulator reported at the end of this block that no vehicle remains
DoneExactlyAtTheEnd ==
  lastCall.op = "step" =>
    (lastCall.done <=> (sim_step >= SIM_DURATION \/ exhausted_at = sim_step))

\* An episode that is not done has run fewer than MostSteps steps
DoneWithinMostSteps ==
  /\ episode_len <= MostSteps
  /\ (lastCall.op = "step" /\ episode_len = MostSteps) => lastCall.done

\* C23 (every episode terminates): step() returns done = True exactly when
\* the simulation time is at least SIM_DURATION or the simulator reports no
\* remaining vehicle; an episode is done after at most
\* ceil((SIM_DURATION - 1) / DECISION_INTERVAL) = 1440 steps; and the loop
\* "while not done" entered after a reset() always reaches a step that
\* returns done = True.
C23_EpisodeTerminates ==
  /\ [](MostSteps = 1440 /\ DoneExactlyAtTheEnd /\ DoneWithinMostSteps)
  /\ (lastCall.op = "reset" ~> (lastCall.op = "step" /\ lastCall.done))

\* C23 witness: the 1440th step of an episode in which vehicles remained
\* throughout returned done = True on the time limit
C23_Witness ==
  /\ lastCall.op = "step"
  /\ lastCall.done
  /\ episode_len = 1440
  /\ exhausted_at = 0
  /\ sim_step >= SIM_DURATION

\* ------------------------------------------------------------------------
\* Claims about the observation vector (SpecObs)
\* ------------------------------------------------------------------------

\* _build_state returned
ObservationBuilt == obsCall.op = "done"

\* C21 (observation components lie in [0, 1]): every component of the vector
\* _build_state returns is at least 0 and at most 1.0, raw readings above
\* the calibration constants being clipped to 1.0.
C21_ComponentsInUnitInterval ==
  ObservationBuilt =>
    \A i \in 1 .. Len(obsCall.state) :
      obsCall.state[i] >= 0 /\ obsCall.state[i] <= OBS_UNIT

\* The position before the phase block: 6 + 6 + 6 lane features and 4
\* approach queues
PhaseBlockOffset == 3 * Len(INCOMING_LANES) + Len(INCOMING_EDGES)

AgentFields == <<policy_net, target_net, optimiser, step_count, epsilon>>

\* C27 (action selection): on every observation select_action() returns a
\* legal action index 0 .. action_size - 1; in evaluation mode (epsilon = 0)
\* it never takes the random branch and returns the arg-max of the policy
\* network's output, one value fixed by the observation and the weights; and
\* a call of select_action() changes no field of the agent.
C27_SelectActionLegalAndGreedyInEval ==
  /\ [](\A state \in Observations :
          LET rets == SelectActionResults(AgentState, state)
          IN /\ rets # {}
             /\ rets \subseteq 0 .. (ACTION_SIZE - 1)
             /\ epsilon = 0 => rets = {GreedyAction(policy_net, state)})
  /\ [][agentCall'.op = "select_action" => UNCHANGED AgentFields]_vars

\* C27 witness: select_action() was called in evaluation mode on a trained
\* agent and returned the arg-max of an observation, with an action index
\* other than 0
C27_Witness ==
  /\ agentCall.op = "select_action"
  /\ epsilon = 0
  /\ policy_net # 0
  /\ agentCall.ret # 0
  /\ \E state \in Observations : agentCall.ret = GreedyAction(policy_net, state)

\* ------------------------------------------------------------------------
\* Claims about the training driver (SpecTrain)
\* ------------------------------------------------------------------------

\* The episodes whose processing finished before the one train() is in
CompletedEpisodes == [i \in 1 .. (train.episode - 1) |-> i]

\* C24 (interrupt during training): when an external interrupt stops a
\* training run, the rows of the completed episodes are in the log file and
\* a checkpoint of the agent as trained so far (here: after at least one
\* optimiser step) has been saved before the process stops.
C24_InterruptSavesProgress ==
  (train.pc = "interrupted" /\ step_count > 0) =>
    /\ train.rows = CompletedEpisodes
    /\ disk = Checkpoint(AgentState)

\* The calls of one iteration of the rollout loop, in order
Iteration == <<"select_action", "step", "remember", "learn">>

\* C25 (lock-step rollout): within an episode every iteration calls
\* select_action, env.step, remember and learn once each, in that order;
\* learn is never called before the step of its iteration returned; and the
\* observation passed to select_action at step k + 1 is the next_state that
\* step k returned.
C25_LockStepOrder ==
  /\ train.pc \in {"step", "remember", "learn"} =>
       /\ Len(train.ops) < Len(Iteration)
       /\ train.ops = SubSeq(Iteration, 1, Len(train.ops))
  /\ train.pc = "learn" => train.ops = <<"select_action", "step", "remember">>
  /\ ((train.pc = "select" /\ train.k > 0) \/ train.pc = "close") =>
       train.ops = Iteration
  /\ (train.pc = "step" /\ train.k > 0) => train.passed = train.next_state

\* C25 witness: the second iteration of an episode has called select_action
\* with the observation the first step returned, which differs from the one
\* reset() returned
C25_Witness ==
  /\ train.pc = "step"
  /\ train.k = 1
  /\ train.ops = <<"select_action">>
  /\ train.passed = train.next_state
  /\ train.passed # ObservationAt(1)
  /\ lastCall.op = "step"

\* decay_epsilon() calls made when train() is at a position of episode e
DecaysAt(pc, e) ==
  IF pc \in {"reset", "select", "step", "remember", "learn", "close", "decay"}
    THEN e - 1
    ELSE e

\* C26 (epsilon schedule over episodes): epsilon does not change within an
\* episode; decay_epsilon() is called exactly once after each episode; after
\* n episodes of a fresh run epsilon is max(EPSILON_MIN, EPSILON_START *
\* EPSILON_DECAY^n).
C26_EpsilonPerEpisode ==
  /\ [](train.pc \in RunningPcs =>
          /\ decays = DecaysAt(train.pc, train.episode)
          /\ epsilon = ClosedForm(decays))
  /\ [][train.pc # "decay" => epsilon' = epsilon]_vars

\* C26 witness: the second episode of a run that learned in its first one is
\* inside its rollout with epsilon decayed once
C26_Witness ==
  /\ train.episode = 2
  /\ train.pc = "learn"
  /\ step_count > 0
  /\ decays = 1
  /\ epsilon = (EPSILON_START * EPSILON_DECAY) \div EPS_UNIT
  /\ epsilon < EPSILON_START

\* ------------------------------------------------------------------------
\* Claims about the buffer across checkpoints (SpecResume)
\* ------------------------------------------------------------------------

\* The keys of the dictionary save() writes (lines 280-288): no entry for
\* self.memory
CheckpointKeys ==
  {"policy_net", "target_net", "optimiser", "epsilon", "step_count",
   "state_size", "action_size"}

\* train(resume_from) built its agent and loaded the checkpoint
Resumed == driver.who = "train" /\ driver.loaded

\* C31 (buffer not part of a checkpoint): the file save() writes holds the
\* networks, the optimiser and the metadata and nothing of the buffer, whatever
\* the buffer holds; load() leaves the buffer as it was; an agent constructed
\* and loaded by train(resume_from) has an empty buffer, and while fewer than
\* MIN_BUFFER_SIZE transitions were remembered since, every learn() returns
\* None and changes no field, whatever the restored step_count.
C31_BufferNotInCheckpoint ==
  /\ [](agentCall.op = "save" =>
          /\ DOMAIN disk.dict = CheckpointKeys
          /\ disk = Checkpoint(AgentState))
  /\ [][agentCall'.op = "load" => buffer' = buffer]_vars
  /\ []((Resumed /\ agentCall.op = "script") => buffer = <<>>)
  /\ [](Resumed => buffer = [i \in 1 .. Len(pushLog) |-> StoredTuple(pushLog[i])])
  /\ [][(Resumed /\ Len(pushLog) < MIN_BUFFER_SIZE /\ agentCall'.op = "learn")
          => /\ agentCall'.ret = "None"
             /\ UNCHANGED <<policy_net, target_net, optimiser, step_count,
                            epsilon, buffer>>]_vars

\* C31 witness: a resumed agent whose restored step_count is positive has
\* remembered a transition and its learn() returned None
C31_Witness ==
  /\ Resumed
  /\ step_count > 0
  /\ 0 < Len(pushLog) /\ Len(pushLog) < MIN_BUFFER_SIZE
  /\ agentCall.op = "learn"
  /\ agentCall.ret = "None"
  /\ disk = Checkpoint(savedAgent)

\* ------------------------------------------------------------------------
\* Claims about the length of an episode (SpecRolloutFair)
\* ------------------------------------------------------------------------

\* step() returned done = True for the first time in its episode, the
\* simulator never having reported that no vehicle remains
DoneOnTheTimeLimit ==
  /\ lastCall.op = "step"
  /\ lastCall.done
  /\ exhausted_at = 0

\* C32 (an episode runs SIM_DURATION simulated seconds): when demand is not
\* exhausted, the simulator steps executed from the start of reset() until
\* step() first returns done = True number exactly SIM_DURATION = 7200, and
\* the agent decides every DECISION_INTERVAL = 5 of them.
C32_EpisodeRunsSimDuration ==
  /\ SIM_DURATION = 7200 /\ DECISION_INTERVAL = 5
  /\ (lastCall.op = "step" /\ exhausted_at = 0) =>
       sim_step = 1 + episode_len * DECISION_INTERVAL
  /\ DoneOnTheTimeLimit => sim_step = SIM_DURATION

\* ------------------------------------------------------------------------
\* Claims about the signal at decision boundaries (SpecEnv)
\* ------------------------------------------------------------------------

\* reset() returned, or step() returned with done = False: the caller's loop
\* goes on to a decision
AtDecisionBoundary ==
  /\ lastCall.op \in {"reset", "step"}
  /\ ~lastCall.raised
  /\ ~lastCall.done

\* C33 (a yellow never spans a decision boundary): YELLOW_DURATION is less
\* than DECISION_INTERVAL; whenever step() returns done = False, and after
\* every reset(), the yellow flag is false and the active phase is a green
\* phase, a yellow started at the decision point having completed within the
\* block; hence the step() that follows makes its preemption check and its
\* decision in a green phase.
C33_NoYellowAcrossBoundary ==
  /\ [](/\ YELLOW_DURATION < DECISION_INTERVAL
        /\ AtDecisionBoundary =>
             /\ ~in_yellow
             /\ phase \in GREEN_PHASES
             /\ lastCall.initiated =>
                  /\ Len(lastCall.yellowLens) = 1
                  /\ phase = next_green)
  /\ [][(AtDecisionBoundary /\ lastCall'.op = "step" /\ ~lastCall'.raised)
          => /\ ~lastCall'.pre_yellow
             /\ lastCall'.phaseLog[1] \in GREEN_PHASES]_vars

\* C33 witness: a step that started a switch returned done = False with the
\* yellow over and the target green active
C33_Witness ==
  /\ AtDecisionBoundary
  /\ lastCall.op = "step"
  /\ lastCall.initiated
  /\ Len(lastCall.phaseLog) = 3
  /\ lastCall.phaseLog[2] \in {NS_YELLOW, EW_YELLOW}
  /\ phase = lastCall.phaseLog[3]
  /\ phase \in GREEN_PHASES
  /\ ~in_yellow

\* ------------------------------------------------------------------------
\* Claims about the commanded signal (SpecEnv)
\* ------------------------------------------------------------------------

\* The axes to which a signal string gives a non-red indication
NonRed(str, i) == str[i] \in {"G", "g", "y"}

AxesWithRightOfWay(str) ==
  {axis \in {"NS", "EW"} :
     \E i \in (IF axis = "NS" THEN NS_MOVEMENTS ELSE EW_MOVEMENTS) :
       NonRed(str, i)}

\* The axis a commanded phase serves
AxisOf(p) == IF p \in {NS_THROUGH, NS_LEFT, NS_YELLOW} THEN "NS" ELSE "EW"

\* The k-th command of the step() that returned follows the command
\* before it, or the signal the simulator showed when the step began
CommandBefore(before, cmds, k) == IF k = 1 THEN before ELSE cmds[k - 1]

\* C34 (no conflicting right of way): the signal string last commanded to
\* the simulator gives a non-red indication (G, g or y) to movements of at
\* most one axis; and within step() a green is commanded only right after a
\* yellow, a yellow only on the axis of the signal it replaces, so that an
\* axis receives green only after the other axis's green was cleared by its
\* yellow.
C34_NoConflictingRightOfWay ==
  /\ [](/\ \A p \in Phases :
             /\ Len(PHASE_SIGNALS[p]) = 18
             /\ AxesWithRightOfWay(PHASE_SIGNALS[p]) = {AxisOf(p)}
        /\ signal # NoSignal =>
             Cardinality(AxesWithRightOfWay(PHASE_SIGNALS[signal])) <= 1)
  /\ [][(lastCall'.op = "step" /\ ~lastCall'.raised) =>
          \A k \in 1 .. Len(lastCall'.cmds) :
            LET now == lastCall'.cmds[k]
                before == CommandBefore(signal, lastCall'.cmds, k)
            IN /\ now \in GREEN_PHASES => before \in {NS_YELLOW, EW_YELLOW}
               /\ now \in {NS_YELLOW, EW_YELLOW} =>
                    /\ before \in GREEN_PHASES \cup {NoSignal}
                    /\ before \in GREEN_PHASES => AxisOf(before) = AxisOf(now)]_vars

\* C34 witness: a step cleared the N/S green by the N/S yellow and then
\* commanded an E/W green
C34_Witness ==
  /\ lastCall.op = "step"
  /\ lastCall.cmds = <<NS_YELLOW, EW_THROUGH>>
  /\ lastCall.phaseLog[1] \in {NS_THROUGH, NS_LEFT}
  /\ signal = EW_THROUGH
  /\ AxesWithRightOfWay(PHASE_SIGNALS[signal]) = {"EW"}

\* ------------------------------------------------------------------------
\* Claims about the response to an emergency vehicle (SpecResponse)
\* ------------------------------------------------------------------------

\* The step() calls within which an unserved emergency approach is served:
\* the decisions a through green's minimum hold spans, and the one that
\* switches
MostStepsToServe ==
  (MIN_GREEN_THROUGH + DECISION_INTERVAL - 1) \div DECISION_INTERVAL + 1

\* C35 (bounded response to an emergency): while an emergency vehicle stays
\* on an incoming approach none of whose greens is active, every step()
\* reports preempted = True whatever action is requested, and a green serving
\* the approach is active when the fourth such step() in a row returns at the
\* latest (4 * DECISION_INTERVAL = 20 simulated seconds): the rest of the
\* current green's minimum hold, then the yellow.
C35_BoundedEmergencyResponse ==
  /\ MostStepsToServe = 4
  /\ MostStepsToServe * DECISION_INTERVAL = 20
  /\ \A e \in Edges :
       /\ response[e].fired
       /\ response[e].steps <= MostStepsToServe
       /\ response[e].steps = MostStepsToServe =>
            /\ phase \in GreensOf(e)
            /\ ~in_yellow

\* C35 witness: the agent started an E/W green; an emergency vehicle then
\* stayed on the north approach, the agent asking for E/W greens throughout,
\* and the N/S through green came with the fourth step
C35_Witness ==
  /\ response["N2J"].steps = MostStepsToServe
  /\ response["N2J"].fired
  /\ lastCall.op = "step"
  /\ lastCall.action \in {ACTION_EW_THROUGH, ACTION_EW_LEFT}
  /\ lastCall.preempted
  /\ lastCall.phaseLog = <<EW_THROUGH, EW_YELLOW, NS_THROUGH>>
  /\ phase = NS_THROUGH

\* C36: bounded target staleness. After any sequence of remember(), learn(),
\* save() and load() on a constructed agent, with load() given the file
\* save() wrote, an older checkpoint with or without a stored step_count, or
\* no readable file, the number of policy updates made since the target
\* network was last set equal to the policy network is at most
\* TARGET_UPDATE_FREQ - 1; while that number is 0 the two networks are equal.
C36_BoundedTargetStaleness ==
  /\ stale <= TARGET_UPDATE_FREQ - 1
  /\ stale = 0 => target_net = policy_net

\* A checkpoint has been loaded and TARGET_UPDATE_FREQ - 1 updates have been
\* made since the synchronisation
C36_Witness ==
  /\ agentCall.op = "learn" /\ agentCall.ret = "loss"
  /\ epsilon # EPSILON_START
  /\ stale = TARGET_UPDATE_FREQ - 1

\* The transitions remembered so far in the episode the training run is in
\* (at "learn" the iteration's transition is remembered and not yet counted)
EpisodeLog ==
  LET n == IF train.pc = "learn" THEN train.k + 1 ELSE train.k
  IN SubSeq(pushLog, Len(pushLog) - n + 1, Len(pushLog))

\* The rollout loop of the episode has been left
EpisodeOver ==
  \/ train.pc \in {"close", "decay", "save", "log", "final"}
  \/ train.pc = "reset" /\ train.episode > 1

\* C37: in the training loop the transition remembered after a step() is the
\* observation select_action() was given, the action it returned (also when
\* the step was preempted and a forced phase was served instead), and the
\* reward, next observation and done flag that this step() produced; and in
\* every episode the transitions remembered before the last have
\* terminal = False, the last has terminal = True exactly when the episode's
\* loop ends with it, and an episode whose loop has ended remembered one.
C37_RememberedTransition ==
  /\ [][(train.pc = "remember" /\ train'.pc = "learn") =>
          LET t == pushLog'[Len(pushLog')] IN
          /\ Len(pushLog') = Len(pushLog) + 1
          /\ buffer'[Len(buffer')] = StoredTuple(t)
          /\ agentCall.op = "select_action" /\ t.action = agentCall.ret
          /\ lastCall.op = "step" /\ lastCall.action = t.action
          /\ t.state = train.passed
          /\ t.reward = lastCall.r_flick + lastCall.r_delta
          /\ t.next_state = ObservationAt(sim_step)
          /\ t.done = lastCall.done]_vars
  /\ [](train.pc \in RunningPcs =>
          LET ep == EpisodeLog IN
          /\ \A i \in 1 .. Len(ep) - 1 : ~ep[i].done
          /\ Len(ep) > 0 =>
               (ep[Len(ep)].done <=>
                  EpisodeOver \/ (train.pc = "learn" /\ train.done))
          /\ EpisodeOver => Len(ep) > 0)

\* The fourth step() of an episode was preempted while the agent had asked
\* for the north-south left turn: the east-west green was forced, the
\* simulation ran out of vehicles, and the transition has been remembered
C37_Witness ==
  /\ train.pc = "learn"
  /\ lastCall.op = "step" /\ lastCall.preempted /\ lastCall.initiated
  /\ phase = EW_THROUGH
  /\ train.k >= 1
  /\ pushLog[Len(pushLog)].action = ACTION_NS_LEFT
  /\ pushLog[Len(pushLog)].done

\* C38 (controller and simulator agree on the signal): whenever reset() or
\* step() has returned, the state last commanded to the simulator through
\* setRedYellowGreenState is PHASE_SIGNALS[_phase], also for a traffic light
\* for which getAllProgramLogics() returns no program.
C38_SignalAgreesWithPhase ==
  (lastCall.op \in {"reset", "step"} /\ ~lastCall.raised) =>
    /\ signal # NoSignal
    /\ PHASE_SIGNALS[signal] = PHASE_SIGNALS[phase]

\* Once a signal state has been commanded in the episode, the last one
\* commanded is that of the controller's phase
SignalAgreesOnceCommanded ==
  (lastCall.op \in {"reset", "step"} /\ ~lastCall.raised /\ signal # NoSignal) =>
    PHASE_SIGNALS[signal] = PHASE_SIGNALS[phase]

\* C39 (the visualizer's manual override slot): under every interleaving of
\* the WebSocket handlers and the simulation loop, a decision step that
\* consumes an override leaves pending_override = None and consumes one
\* override only; no stored override is consumed by two decision steps; and
\* the override a decision step consumes is the one stored by the last
\* accepted message received before it, so that of two overrides arriving
\* between two decision steps only the second is applied.
C39_OverrideSlot ==
  /\ [][Len(viz'.applied) > Len(viz.applied) =>
          /\ pending_override' = NoOverride
          /\ Len(viz'.applied) = Len(viz.applied) + 1
          /\ viz'.decisions = viz.decisions + 1
          /\ viz'.override = pending_override
          /\ pending_override # NoOverride]_vars
  /\ [](\A i \in DOMAIN viz.applied :
          /\ viz.applied[i].msg > 0
          /\ viz.applied[i].msg = viz.applied[i].latest
          /\ \A j \in DOMAIN viz.applied :
               i # j => viz.applied[i].msg # viz.applied[j].msg)
  /\ [](pending_override # NoOverride =>
          /\ pending_override.msg = viz.lastWrite
          /\ \A i \in DOMAIN viz.applied :
               viz.applied[i].msg < pending_override.msg)

\* Two overrides were stored before the first decision step, which applied
\* the second of them; the next decision step found the slot empty
C39_Witness ==
  /\ viz.writes = 2
  /\ viz.decisions = 2
  /\ Len(viz.applied) = 1
  /\ viz.applied[1].msg = viz.lastWrite
  /\ pending_override = NoOverride

====
